---- MODULE Spec2Model ----
(***************************************************************************)
(* nyx: assembler back end (compiler/mod.rs, compiler/bytecode.rs) and     *)
(* virtual machine (vm/mod.rs, vm/register.rs, vm/memory.rs).              *)
(*                                                                         *)
(* Every integer of the program is kept at its width: a u8/u16/u32/u64 or  *)
(* usize value is the little-endian tuple of its bytes, so a QWord is      *)
(* eight bytes here as in the image, and truncation, zero extension and    *)
(* overflow are what they are in the code.                                 *)
(***************************************************************************)
EXTENDS Integers, Sequences, FiniteSets, TLC

VARIABLES
    build,      \* "debug" | "release": whether usize arithmetic overflow panics or wraps
    program,    \* Compiler.program: the statement stream handed to Compiler::new
    compiler,   \* the Compiler after compile(): bytecode, labels, fixups, entry, result
    image,      \* the byte image handed to VM::new
    mem_size,   \* the memory size handed to VM::new
    vm,         \* the VM: regs, mem, flags, halted, and the result of the last call
    last,       \* history: the number of steps taken, the last instruction decoded
                \* and the VM as it was before that step
    preprocessor \* the Preprocessors in process(): the files on disk, the stack of
                \* frames (the root unit's first), the result

vars == <<build, program, compiler, image, mem_size, vm, last, preprocessor>>

(***************************************************************************)
(* Bytes and fixed-width little-endian integers                            *)
(***************************************************************************)

\* n (an i64 literal, possibly negative) as w little-endian bytes: `n as uW`.to_le_bytes()
RECURSIVE LE(_, _)
LE(n, w) == IF w = 0 THEN <<>> ELSE <<n % 256>> \o LE(n \div 256, w - 1)

Zeros(w) == [i \in 1..w |-> 0]

\* An unsigned value of any width converted to w bytes: truncated when wider,
\* zero-extended when narrower (`v as uW` between unsigned integers).
Resize(b, w) == [i \in 1..w |-> IF i <= Len(b) THEN b[i] ELSE 0]

\* The value fits in three bytes: it can be used as a number.
IsSmall(b) == \A i \in 1..Len(b) : i > 3 => b[i] = 0

Small(b) ==
    (IF Len(b) >= 1 THEN b[1] ELSE 0)
    + (IF Len(b) >= 2 THEN 256 * b[2] ELSE 0)
    + (IF Len(b) >= 3 THEN 65536 * b[3] ELSE 0)

\* Comparisons of a usize with a small number n (a length of this model).
GeN(b, n) == ~IsSmall(b) \/ Small(b) >= n
GtN(b, n) == ~IsSmall(b) \/ Small(b) > n
LtN(b, n) == ~GeN(b, n)

USize(n) == LE(n, 8)

\* a + b over 8 bytes: the wrapped sum and the carry out of the top byte.
RECURSIVE AddCarry(_, _, _, _)
AddCarry(a, b, i, c) ==
    IF i > Len(a) THEN <<c>>
    ELSE LET s == a[i] + b[i] + c
         IN  <<s % 256>> \o AddCarry(a, b, i + 1, s \div 256)

Add64(a, b) ==
    LET r == AddCarry(Resize(a, 8), Resize(b, 8), 1, 0)
    IN  [sum |-> SubSeq(r, 1, 8), overflow |-> r[9] = 1]

\* a - b over 8 bytes, wrapping (two's complement).
RECURSIVE SubBorrow(_, _, _, _)
SubBorrow(a, b, i, c) ==
    IF i > Len(a) THEN <<>>
    ELSE LET s == a[i] - b[i] - c
         IN  <<s % 256>> \o SubBorrow(a, b, i + 1, IF s < 0 THEN 1 ELSE 0)

Sub64(a, b) == SubBorrow(Resize(a, 8), Resize(b, 8), 1, 0)

\* Column k of the schoolbook product of a and b: the sum of a[i] * b[k + 1 - i]
RECURSIVE ColumnSum(_, _, _, _)
ColumnSum(a, b, k, i) ==
    IF i = 0 THEN 0 ELSE a[i] * b[k + 1 - i] + ColumnSum(a, b, k, i - 1)

\* wrapping_mul: the low Len(a) bytes of a * b, from column k with carry c
RECURSIVE MulBytes(_, _, _, _)
MulBytes(a, b, k, c) ==
    IF k > Len(a) THEN <<>>
    ELSE LET t == ColumnSum(a, b, k, k) + c
         IN  <<t % 256>> \o MulBytes(a, b, k + 1, t \div 256)

\* a / n for a divisor n below 2^16: the quotient bytes from byte i down, the
\* remainder of the higher bytes being r
RECURSIVE DivBytes(_, _, _, _)
DivBytes(a, n, i, r) ==
    IF i = 0 THEN <<>>
    ELSE LET t == r * 256 + a[i]
         IN  DivBytes(a, n, i - 1, t % n) \o <<t \div n>>

\* Comparison of unsigned little-endian values of the same width
RECURSIVE LtBytes(_, _, _)
LtBytes(a, b, i) ==
    IF i = 0 THEN FALSE
    ELSE IF a[i] # b[i] THEN a[i] < b[i]
    ELSE LtBytes(a, b, i - 1)

(***************************************************************************)
(* DataSize (parser/immediate.rs)                                          *)
(***************************************************************************)

Byte == 0
Word == 1
DWord == 2
QWord == 3
Float == 4
Double == 5

DataSizes == {Byte, Word, DWord, QWord, Float, Double}
IntSizes == {Byte, Word, DWord, QWord}

size_in_bytes(ds) ==
    CASE ds = Byte -> 1
      [] ds = Word -> 2
      [] ds = DWord -> 4
      [] ds = QWord -> 8
      [] ds = Float -> 4
      [] ds = Double -> 8

(***************************************************************************)
(* Register (vm/register.rs): a register is its ordinal, the byte the      *)
(* compiler emits and the decoder reads.                                   *)
(***************************************************************************)

IP == 96
SP == 97
BP == 98

IP_REG == 0
SP_REG == 1
BP_REG == 2

NumRegisters == 99

Registers == 0..(NumRegisters - 1)

\* B0 = 0, W0 = 1, D0 = 2, Q0 = 3, FF0 = 4, DD0 = 5, B1 = 6, ...
Reg(view, i) == 6 * i + view

\* impl From<Register> for DataSize
DataSizeOf(r) == IF r >= IP THEN QWord ELSE r % 6

\* A layout in which DDi shares the slot of FFi (sensitivity of the register
\* frame)
PhysicalInfoAliased(r) ==
    IF r >= IP
    THEN [type |-> "Special", index |-> r - IP, view |-> QWord]
    ELSE IF r % 6 \in {Float, Double}
    THEN [type |-> "FloatingPoint", index |-> r \div 6, view |-> r % 6]
    ELSE [type |-> "GeneralPurpose", index |-> r \div 6, view |-> r % 6]

\* Register::physical_info: (type, index, view)
physical_info(r) ==
    IF r >= IP
    THEN [type |-> "Special", index |-> r - IP, view |-> QWord]
    ELSE IF r % 6 = Float
    THEN [type |-> "FloatingPoint", index |-> r \div 6, view |-> Float]
    ELSE IF r % 6 = Double
    THEN [type |-> "FloatingPoint", index |-> 16 + (r \div 6), view |-> Double]
    ELSE [type |-> "GeneralPurpose", index |-> r \div 6, view |-> r % 6]

(***************************************************************************)
(* Floating-point literals.  A float value is a number of halves           *)
(* (3 is 1.5); FloatValues are the values this model draws.  F32Bits and   *)
(* F64Bits are their IEEE 754 bit patterns, little-endian, as              *)
(* f32::to_le_bytes and f64::to_le_bytes give them.                        *)
(***************************************************************************)

FloatValues == {0, 2, 3, 4}

F32Bits(h) ==
    CASE h = 0 -> <<0, 0, 0, 0>>
      [] h = 2 -> <<0, 0, 128, 63>>
      [] h = 3 -> <<0, 0, 192, 63>>
      [] h = 4 -> <<0, 0, 0, 64>>

F64Bits(h) ==
    CASE h = 0 -> <<0, 0, 0, 0, 0, 0, 0, 0>>
      [] h = 2 -> <<0, 0, 0, 0, 0, 0, 240, 63>>
      [] h = 3 -> <<0, 0, 0, 0, 0, 0, 248, 63>>
      [] h = 4 -> <<0, 0, 0, 0, 0, 0, 0, 64>>

\* `n as f32` / `n as f64` for an integer literal n with 2n in FloatValues.
IntToF32(n) == F32Bits(2 * n)
IntToF64(n) == F64Bits(2 * n)

(***************************************************************************)
(* Opcode (compiler/opcode.rs).  One byte per opcode; the byte of an       *)
(* opcode is its place in the enumeration.                                 *)
(***************************************************************************)

Opcodes == <<
    "Nop", "MovRegReg", "MovRegImm", "Ldr", "Str",
    "PushReg", "PushImm", "PushAddr", "PopReg", "PopAddr",
    "AddRegRegReg", "AddRegRegImm", "SubRegRegReg", "SubRegRegImm",
    "MulRegRegReg", "MulRegRegImm", "DivRegRegReg", "DivRegRegImm",
    "AndRegRegReg", "AndRegRegImm", "OrRegRegReg", "OrRegRegImm",
    "XorRegRegReg", "XorRegRegImm", "ShlRegRegReg", "ShlRegRegImm",
    "ShrRegRegReg", "ShrRegRegImm", "CmpRegImm", "CmpRegReg",
    "JmpImm", "JmpReg", "JeqImm", "JeqReg", "JneImm", "JneReg",
    "JltImm", "JltReg", "JgtImm", "JgtReg", "JleImm", "JleReg",
    "JgeImm", "JgeReg", "CallImm", "CallReg", "Inc", "Dec",
    "Ret", "Syscall", "Hlt" >>

\* `Opcode::X as u8`
OpcodeByte(name) == (CHOOSE i \in 1..Len(Opcodes) : Opcodes[i] = name) - 1

ADDRESSING_VARIANT_1 == 0
ADDRESSING_VARIANT_2 == 1

(***************************************************************************)
(* AST (parser/ast.rs): expressions and statements                         *)
(***************************************************************************)

NoneE == [k |-> "None"]
RegE(r) == [k |-> "Register", r |-> r]
IntE(v) == [k |-> "IntegerLiteral", v |-> v]
FloatE(h) == [k |-> "FloatLiteral", v |-> h]
IdE(name) == [k |-> "Identifier", name |-> name]
StrE(bytes) == [k |-> "StringLiteral", bytes |-> bytes]
SizeE(ds) == [k |-> "DataSize", ds |-> ds]
AddrE(base, off) == [k |-> "Address", base |-> base, off |-> off]

Stmt(op, a, b, c) == [op |-> op, a |-> a, b |-> b, c |-> c]
Stmt0(op) == Stmt(op, NoneE, NoneE, NoneE)
Stmt1(op, a) == Stmt(op, a, NoneE, NoneE)
Stmt2(op, a, b) == Stmt(op, a, b, NoneE)
SectionS(s) == Stmt1("Section", [k |-> "SectionType", s |-> s])
LabelS(name) == Stmt1("Label", IdE(name))
DbS(items) == Stmt1("Db", [k |-> "List", items |-> items])

(***************************************************************************)
(* Bytecode (compiler/bytecode.rs)                                         *)
(***************************************************************************)

NewBytecode == [text |-> <<>>, data |-> <<>>]

len(bc, section) == IF section = "Text" THEN Len(bc.text) ELSE Len(bc.data)

extend(bc, section, bytes) ==
    IF section = "Text" THEN [bc EXCEPT !.text = @ \o bytes]
    ELSE [bc EXCEPT !.data = @ \o bytes]

Overwrite(buf, offset, bytes) ==
    [i \in 1..Len(buf) |->
        IF i > offset /\ i <= offset + Len(bytes) THEN bytes[i - offset] ELSE buf[i]]

\* write_u8_at, write_u16_at, write_u32_at, write_u64_at: bytes is value.to_le_bytes()
write_at(bc, section, offset, bytes) ==
    IF section = "Text" THEN [bc EXCEPT !.text = Overwrite(@, offset, bytes)]
    ELSE [bc EXCEPT !.data = Overwrite(@, offset, bytes)]

finalize(bc) == bc.text \o bc.data

(***************************************************************************)
(* Preprocessor (preprocessor/mod.rs).  A file holds the statements that   *)
(* the lexer and the parser make of its text; a path is a sequence of      *)
(* bytes.  The recursion process -> process_include -> process is a stack  *)
(* of frames, one per Preprocessor, the root unit's at the bottom.         *)
(***************************************************************************)

DefineS(name, value) == Stmt2("Define", IdE(name), value)
IncludeS(path) == Stmt1("Include", StrE(path))
IfDefS(name) == Stmt1("IfDef", IdE(name))
IfNDefS(name) == Stmt1("IfNDef", IdE(name))
ElseS == Stmt0("Else")
EndIfS == Stmt0("EndIf")
ErrorS(message) == Stmt1("Error", StrE(message))

\* utils::get_default_definitions on x86_64 Linux
DefaultDefinitions ==
    ("__X86_64__" :> StrE(<<>>)) @@ ("__LINUX__" :> StrE(<<>>))

\* One Preprocessor in process(): its fields (program, input, definitions,
\* included_files), the first loop's position i and processed_statements,
\* and the locals of process_conditionals: its position ci, stack and result
NewFrame(prog, input, definitions, included_files) ==
    [program |-> prog, input |-> input, i |-> 1, processed |-> <<>>,
     definitions |-> definitions, included_files |-> included_files,
     ci |-> 1, stack |-> <<>>, result |-> <<>>]

\* No preprocessor has been made
NoPreprocessor ==
    [status |-> "None", files |-> <<>>, stack |-> <<>>, out |-> <<>>, message |-> <<>>]

\* Preprocessor::new(program, input), with the files that exist on disk
PreprocessorNew(prog, input, files) ==
    [status |-> "Running",
     files |-> files,
     stack |-> <<NewFrame(prog, input, DefaultDefinitions, {})>>,
     out |-> <<>>,
     message |-> <<>>]

\* should_include_statement_with_info that asks the innermost frame only
\* (sensitivity of nested conditionals)
ShouldIncludeTopOnly(stack) ==
    stack = <<>> \/
        (IF stack[Len(stack)].seen_else THEN ~stack[Len(stack)].condition_result
         ELSE stack[Len(stack)].condition_result)

\* should_include_statement_with_info
should_include_statement_with_info(stack) ==
    \A k \in 1..Len(stack) :
        IF stack[k].seen_else THEN ~stack[k].condition_result
        ELSE stack[k].condition_result

\* A loop turn in which #else only toggles the top frame, however often it
\* comes (sensitivity of the second #else)
ConditionalStepToggle(frame, s) ==
    LET next == [frame EXCEPT !.ci = @ + 1]
        depth == Len(frame.stack)
    IN  CASE s.op \in {"IfDef", "IfNDef"} ->
                [err |-> "Ok",
                 frame |-> [next EXCEPT !.stack = Append(@,
                     [condition_result |-> (s.op = "IfDef") = (s.a.name \in DOMAIN frame.definitions),
                      seen_else |-> FALSE,
                      conditional_type |-> s.op])]]
          [] s.op = "Else" ->
                IF depth = 0 THEN [err |-> "UnmatchedElse", frame |-> frame]
                ELSE [err |-> "Ok", frame |-> [next EXCEPT !.stack[depth].seen_else = ~@]]
          [] s.op = "EndIf" ->
                IF depth = 0 THEN [err |-> "UnmatchedEndif", frame |-> frame]
                ELSE [err |-> "Ok", frame |-> [next EXCEPT !.stack = SubSeq(@, 1, depth - 1)]]
          [] OTHER ->
                IF should_include_statement_with_info(frame.stack)
                THEN [err |-> "Ok", frame |-> [next EXCEPT !.result = Append(@, s)]]
                ELSE [err |-> "Ok", frame |-> next]

\* One turn of the loop of process_conditionals on statement s: the frame
\* after it, and the error
ConditionalStep(frame, s) ==
    LET next == [frame EXCEPT !.ci = @ + 1]
        depth == Len(frame.stack)
    IN  CASE s.op \in {"IfDef", "IfNDef"} ->
                IF s.a.k # "Identifier" THEN [err |-> "InvalidConditionalExpr", frame |-> frame]
                ELSE LET is_defined == s.a.name \in DOMAIN frame.definitions
                     IN  [err |-> "Ok",
                          frame |-> [next EXCEPT !.stack = Append(@,
                              [condition_result |-> IF s.op = "IfDef" THEN is_defined
                                                    ELSE ~is_defined,
                               seen_else |-> FALSE,
                               conditional_type |-> s.op])]]
          [] s.op = "Else" ->
                IF depth = 0 \/ frame.stack[depth].seen_else
                THEN [err |-> "UnmatchedElse", frame |-> frame]
                ELSE [err |-> "Ok", frame |-> [next EXCEPT !.stack[depth].seen_else = TRUE]]
          [] s.op = "EndIf" ->
                IF depth = 0 THEN [err |-> "UnmatchedEndif", frame |-> frame]
                ELSE [err |-> "Ok", frame |-> [next EXCEPT !.stack = SubSeq(@, 1, depth - 1)]]
          [] OTHER ->
                IF should_include_statement_with_info(frame.stack)
                THEN [err |-> "Ok", frame |-> [next EXCEPT !.result = Append(@, s)]]
                ELSE [err |-> "Ok", frame |-> next]

\* The end of process_conditionals: a conditional left open is an error,
\* named after `stack.last()`
Unmatched(stack) ==
    IF stack = <<>> THEN "Ok"
    ELSE IF stack[Len(stack)].conditional_type = "IfDef" THEN "UnmatchedIfdef"
    ELSE "UnmatchedIfndef"

BinE(lhs, op, rhs) == [k |-> "BinaryOp", lhs |-> lhs, op |-> op, rhs |-> rhs]

BinaryOperators == {"Add", "Sub", "Mul", "Div", "BitOr", "BitAnd", "BitXor"}

\* An i64 is its eight two's-complement bytes, the least significant first;
\* I64(n) is the i64 of a number n of this model
I64(n) == IF n >= 0 THEN LE(n, 8) ELSE Sub64(Zeros(8), LE(0 - n, 8))

I64Min == <<0, 0, 0, 0, 0, 0, 0, 128>>
I64Max == <<255, 255, 255, 255, 255, 255, 255, 127>>

Negative(b) == b[8] >= 128

\* The magnitude of an i64 as an unsigned value (2^63 for i64::MIN)
Abs64(b) == IF Negative(b) THEN Sub64(Zeros(8), b) ELSE b

\* |, & and ^ of two bytes, bit by bit
RECURSIVE BitOp(_, _, _, _)
BitOp(op, a, b, n) ==
    IF n = 0 THEN 0
    ELSE LET x == a % 2
             y == b % 2
             bit == CASE op = "BitOr" -> IF x + y > 0 THEN 1 ELSE 0
                      [] op = "BitAnd" -> x * y
                      [] OTHER -> (x + y) % 2
         IN  bit + 2 * BitOp(op, a \div 2, b \div 2, n - 1)

\* l + r, l - r, l * r overflow the i64
AddOverflows(l, r) ==
    Negative(l) = Negative(r) /\ Negative(Add64(l, r).sum) # Negative(l)

SubOverflows(l, r) ==
    Negative(l) # Negative(r) /\ Negative(Sub64(l, r)) # Negative(l)

MulOverflows(l, r) ==
    LET product == MulBytes(Resize(Abs64(l), 16), Resize(Abs64(r), 16), 1, 0)
    IN  \/ \E i \in 9..16 : product[i] # 0
        \/ /\ product[8] >= 128
           /\ Negative(l) = Negative(r) \/ SubSeq(product, 1, 8) # I64Min

\* l / r of i64 for r # 0, rounded towards zero, for a divisor below 2^16 in
\* magnitude or above 2^62 (the quotient is then 0 or 1 in magnitude)
DivI64(l, r) ==
    LET n == Abs64(r)
        m == Abs64(l)
        q == IF \A i \in 3..8 : n[i] = 0 THEN DivBytes(m, n[1] + 256 * n[2], 8, 0)
             ELSE IF LtBytes(m, n, 8) THEN Zeros(8)
             ELSE I64(1)
    IN  IF (\E i \in 3..8 : n[i] # 0) /\ n[8] <= 64 THEN [k |-> "Unmodelled"]
        ELSE IntE(IF Negative(l) # Negative(r) THEN Sub64(Zeros(8), q) ELSE q)

\* The arithmetic of substitute_expr on two IntegerLiteral: `l + r`, `l - r`,
\* `l * r`, `l / r` of i64 panic on overflow when the build checks overflow
\* (debug) and wrap when it does not (release); `l / r` panics in every build
\* when r is 0 and when the quotient overflows (i64::MIN / -1)
Fold(bld, op, l, r) ==
    CASE op = "Add" ->
            IF bld = "debug" /\ AddOverflows(l, r) THEN [k |-> "Panic"]
            ELSE IntE(Add64(l, r).sum)
      [] op = "Sub" ->
            IF bld = "debug" /\ SubOverflows(l, r) THEN [k |-> "Panic"]
            ELSE IntE(Sub64(l, r))
      [] op = "Mul" ->
            IF bld = "debug" /\ MulOverflows(l, r) THEN [k |-> "Panic"]
            ELSE IntE(MulBytes(l, r, 1, 0))
      [] op = "Div" ->
            IF r = Zeros(8) \/ (l = I64Min /\ r = I64(-1)) THEN [k |-> "Panic"]
            ELSE DivI64(l, r)
      [] OTHER -> IntE([i \in 1..8 |-> BitOp(op, l[i], r[i], 8)])

\* The expression is no expression: process() does not return with it
Failures == {"StackOverflow", "Panic", "InvalidOperatorForFloat", "Unmodelled"}

\* substitute_expr that leaves the replacement of an identifier as it is
\* (sensitivity of the transitive resolution)
RECURSIVE SubstituteOnce(_, _, _, _)
SubstituteOnce(bld, definitions, expr, fuel) ==
    CASE expr.k = "Identifier" ->
            IF expr.name \notin DOMAIN definitions THEN expr
            ELSE definitions[expr.name]
      [] expr.k = "Address" ->
            AddrE(SubstituteOnce(bld, definitions, expr.base, fuel),
                  SubstituteOnce(bld, definitions, expr.off, fuel))
      [] expr.k = "BinaryOp" ->
            LET lhs == SubstituteOnce(bld, definitions, expr.lhs, fuel)
                rhs == SubstituteOnce(bld, definitions, expr.rhs, fuel)
            IN  IF lhs.k = "IntegerLiteral" /\ rhs.k = "IntegerLiteral"
                THEN Fold(bld, expr.op, lhs.v, rhs.v)
                ELSE BinE(lhs, expr.op, rhs)
      [] OTHER -> expr

\* substitute_expr.  An IntegerLiteral that meets a BinaryOp carries its i64
\* as eight bytes.  A chain of definitions longer than the table has entries
\* never ends: the recursion overflows the stack and the process is killed
\* (StackOverflow).  The arithmetic of two FloatLiteral is not modelled
RECURSIVE substitute_expr(_, _, _, _)
substitute_expr(bld, definitions, expr, fuel) ==
    CASE expr.k = "Identifier" ->
            IF expr.name \notin DOMAIN definitions THEN expr
            ELSE IF fuel = 0 THEN [k |-> "StackOverflow"]
            ELSE substitute_expr(bld, definitions, definitions[expr.name], fuel - 1)
      [] expr.k = "Address" ->
            LET new_base == substitute_expr(bld, definitions, expr.base, fuel)
                new_offset == substitute_expr(bld, definitions, expr.off, fuel)
            IN  IF new_base.k \in Failures THEN new_base
                ELSE IF new_offset.k \in Failures THEN new_offset
                ELSE AddrE(new_base, new_offset)
      [] expr.k = "BinaryOp" ->
            LET lhs == substitute_expr(bld, definitions, expr.lhs, fuel)
                rhs == substitute_expr(bld, definitions, expr.rhs, fuel)
            IN  IF lhs.k \in Failures THEN lhs
                ELSE IF rhs.k \in Failures THEN rhs
                ELSE IF lhs.k = "IntegerLiteral" /\ rhs.k = "IntegerLiteral"
                THEN Fold(bld, expr.op, lhs.v, rhs.v)
                ELSE IF lhs.k = "FloatLiteral" /\ rhs.k = "FloatLiteral"
                THEN IF expr.op \in {"Add", "Sub", "Mul", "Div"}
                     THEN [k |-> "Unmodelled"]
                     ELSE [k |-> "InvalidOperatorForFloat"]
                ELSE BinE(lhs, expr.op, rhs)
      [] OTHER -> expr

\* The operand expressions of a statement, in the order of their substitution
OperandsOf(s) ==
    IF s.op \in {"Label", "Section", "Nop", "Ret", "Syscall", "Hlt",
                 "Else", "EndIf"} THEN <<>>
    ELSE IF s.op = "Db" THEN s.a.items
    ELSE <<s.a, s.b, s.c>>

\* One statement of the last loop of process(): the statement with its
\* operands substituted
Substituted(bld, definitions, s) ==
    LET fuel == Cardinality(DOMAIN definitions)
        sub(e) == substitute_expr(bld, definitions, e, fuel)
    IN  IF s.op \in {"Label", "Section", "Nop", "Ret", "Syscall", "Hlt"} THEN s
        ELSE IF s.op = "Db"
        THEN [s EXCEPT !.a.items = [j \in 1..Len(s.a.items) |-> sub(s.a.items[j])]]
        ELSE Stmt(s.op, sub(s.a), sub(s.b), sub(s.c))

\* The first operand of the statement whose substitution did not return
FailureOf(s) ==
    LET es == OperandsOf(s)
        failed == {j \in 1..Len(es) : es[j].k \in Failures}
    IN  IF failed = {} THEN "Ok"
        ELSE es[CHOOSE j \in failed : \A h \in failed : j <= h].k

\* The message of an #error whose operand is no string literal ("Expected
\* string literal in #error directive", abridged)
ExpectedStringLiteral == <<69, 120, 112>>

\* The last loop of process() that goes on after an #error and reports the
\* last one (sensitivity of the first #error)
RECURSIVE FinalLoopLastError(_, _, _, _, _)
FinalLoopLastError(bld, definitions, statements, i, acc) ==
    IF i > Len(statements) THEN [err |-> "Ok", statements |-> acc, message |-> <<>>]
    ELSE LET s == statements[i]
             new_stmt == Substituted(bld, definitions, s)
             rest == FinalLoopLastError(bld, definitions, statements, i + 1, acc)
         IN  IF s.op = "Error"
             THEN IF rest.err = "Error" THEN rest
                  ELSE [err |-> "Error", statements |-> <<>>, message |-> s.a.bytes]
             ELSE IF s.op \in {"Include", "IfDef", "IfNDef", "Else", "EndIf"}
             THEN rest
             ELSE IF FailureOf(new_stmt) # "Ok"
             THEN [err |-> FailureOf(new_stmt), statements |-> <<>>, message |-> <<>>]
             ELSE FinalLoopLastError(bld, definitions, statements, i + 1,
                                     Append(acc, new_stmt))

\* The last loop of process() from statement i on: #error stops it, the
\* directives that are left are dropped, the rest is substituted
RECURSIVE FinalLoop(_, _, _, _, _)
FinalLoop(bld, definitions, statements, i, acc) ==
    IF i > Len(statements) THEN [err |-> "Ok", statements |-> acc, message |-> <<>>]
    ELSE LET s == statements[i]
             new_stmt == Substituted(bld, definitions, s)
         IN  IF s.op = "Error"
             THEN [err |-> "Error", statements |-> <<>>,
                   message |-> IF s.a.k = "StringLiteral" THEN s.a.bytes
                               ELSE ExpectedStringLiteral]
             ELSE IF s.op \in {"Include", "IfDef", "IfNDef", "Else", "EndIf"}
             THEN FinalLoop(bld, definitions, statements, i + 1, acc)
             ELSE IF FailureOf(new_stmt) # "Ok"
             THEN [err |-> FailureOf(new_stmt), statements |-> <<>>, message |-> <<>>]
             ELSE FinalLoop(bld, definitions, statements, i + 1, Append(acc, new_stmt))

\* process() once the loop of process_conditionals is over: the check for
\* open conditionals, then the last loop
Finished(bld, frame) ==
    IF Unmatched(frame.stack) # "Ok"
    THEN [err |-> Unmatched(frame.stack), statements |-> <<>>, message |-> <<>>]
    ELSE FinalLoop(bld, frame.definitions, frame.result, 1, <<>>)

\* A first loop in which the first #define of a name stays (sensitivity of
\* the last definition)
FirstLoopKeepsFirst(frame, s) ==
    CASE s.op = "Define" ->
            IF s.a.k = "Identifier"
            THEN [err |-> "Ok",
                  frame |-> [frame EXCEPT
                      !.definitions = @ @@ (s.a.name :> s.b), !.i = @ + 1]]
            ELSE [err |-> "InvalidDefineKey", frame |-> frame]
      [] s.op = "Include" -> [err |-> "InvalidIncludePath", frame |-> frame]
      [] OTHER ->
            [err |-> "Ok",
             frame |-> [frame EXCEPT !.processed = Append(@, s), !.i = @ + 1]]

\* The first loop of process() on a statement that is not a well-formed
\* #include: the frame after it, or the error
FirstLoop(frame, s) ==
    CASE s.op = "Define" ->
            IF s.a.k = "Identifier"
            THEN [err |-> "Ok",
                  frame |-> [frame EXCEPT
                      !.definitions = (s.a.name :> s.b) @@ @, !.i = @ + 1]]
            ELSE [err |-> "InvalidDefineKey", frame |-> frame]
      [] s.op = "Include" -> [err |-> "InvalidIncludePath", frame |-> frame]
      [] OTHER ->
            [err |-> "Ok",
             frame |-> [frame EXCEPT !.processed = Append(@, s), !.i = @ + 1]]

\* process_include without the test of included_files (sensitivity of the
\* detection of cycles)
ProcessIncludeUnchecked(frame, file_path, files) ==
    IF file_path \notin DOMAIN files THEN [err |-> "IncludeFileNotFound", stack |-> <<frame>>]
    ELSE LET self == [frame EXCEPT !.included_files = @ \cup {file_path}]
         IN  [err |-> "Ok",
              stack |-> <<self, NewFrame(files[file_path], file_path, self.definitions,
                                         self.included_files)>>]

\* process_include(file_path) up to the call of sub_preprocessor.process():
\* include_paths is [""], so the candidate is the path itself
process_include(frame, file_path, files) ==
    IF file_path \notin DOMAIN files THEN [err |-> "IncludeFileNotFound", stack |-> <<frame>>]
    ELSE IF file_path \in frame.included_files
    THEN [err |-> "CircularInclude", stack |-> <<frame>>]
    ELSE LET self == [frame EXCEPT !.included_files = @ \cup {file_path}]
         IN  [err |-> "Ok",
              stack |-> <<self, NewFrame(files[file_path], file_path, self.definitions,
                                         self.included_files)>>]

\* process_include that does not extend self.definitions by the
\* sub-preprocessor's (sensitivity of the definitions an included file makes)
MergeIncludeOwnDefinitions(self, sub, processed) ==
    [self EXCEPT !.included_files = @ \cup sub.included_files,
                 !.processed = @ \o processed,
                 !.i = @ + 1]

\* process_include after sub_preprocessor.process() has returned processed:
\* the tables of the sub-preprocessor are merged into self
MergeInclude(self, sub, processed) ==
    [self EXCEPT !.definitions = sub.definitions @@ @,
                 !.included_files = @ \cup sub.included_files,
                 !.processed = @ \o processed,
                 !.i = @ + 1]

(***************************************************************************)
(* Compiler (compiler/mod.rs)                                              *)
(***************************************************************************)

NoLabels == [n \in {} |-> 0]

\* Compiler::new
NewCompiler ==
    [bytecode |-> NewBytecode,
     labels |-> NoLabels,
     fixups |-> {},
     current_section |-> "Text",
     entry |-> [kind |-> "Address", addr |-> Zeros(8), label |-> ""],
     err |-> "Ok"]

Fail(c, e) == [c EXCEPT !.err = e]

\* self.bytecode.push / self.bytecode.extend on the current section
Emit(c, bytes) == [c EXCEPT !.bytecode = extend(@, c.current_section, bytes)]

\* self.fixups.insert((self.current_section, offset), (size, label, span))
AddFixup(c, size, label) ==
    LET off == len(c.bytecode, c.current_section)
        f == [section |-> c.current_section, offset |-> off, size |-> size, label |-> label]
    IN  [c EXCEPT !.fixups =
            {g \in @ : ~(g.section = f.section /\ g.offset = f.offset)} \cup {f}]

\* An integer literal emitted at an integer data size: `src as uN`.to_le_bytes()
IntBytes(v, ds) == LE(v, size_in_bytes(ds))

\* An integer literal emitted at any data size (numeric cast for Float/Double).
ImmBytes(v, ds) ==
    IF ds = Float THEN IntToF32(v)
    ELSE IF ds = Double THEN IntToF64(v)
    ELSE IntBytes(v, ds)

\* A float literal emitted at Float or Double.
FloatBytes(h, ds) == IF ds = Float THEN F32Bits(h) ELSE F64Bits(h)

\* The memory operand [base] or [base, offset] of LDR, STR, PUSH and POP.
AddressOk(base, off) ==
    /\ base.k \in {"Register", "IntegerLiteral", "Identifier"}
    /\ off.k \in {"None", "IntegerLiteral"}

EmitAddress(c, base, off) ==
    LET offset == IF off.k = "None" THEN Zeros(8) ELSE LE(off.v, 8)
    IN  CASE base.k = "Register" ->
                Emit(c, <<ADDRESSING_VARIANT_1, base.r>> \o offset)
          [] base.k = "IntegerLiteral" ->
                Emit(c, <<ADDRESSING_VARIANT_2>> \o LE(base.v, 8) \o offset)
          [] base.k = "Identifier" ->
                LET c1 == Emit(c, <<ADDRESSING_VARIANT_2>>)
                    c2 == AddFixup(c1, QWord, base.name)
                IN  Emit(c2, Zeros(8) \o offset)

compile_mov(c, lhs, rhs) ==
    IF lhs.k # "Register" THEN Fail(c, "InvalidOperands")
    ELSE LET ds == DataSizeOf(lhs.r)
             head == Emit(c, <<OpcodeByte("MovRegImm"), lhs.r>>)
         IN  CASE rhs.k = "Register" ->
                     Emit(c, <<OpcodeByte("MovRegReg"), lhs.r, rhs.r>>)
               [] rhs.k = "IntegerLiteral" ->
                     IF ds \in IntSizes THEN Emit(head, IntBytes(rhs.v, ds))
                     ELSE Fail(c, "InvalidDataSize")
               [] rhs.k = "FloatLiteral" ->
                     IF ds \in {Float, Double} THEN Emit(head, FloatBytes(rhs.v, ds))
                     ELSE Fail(c, "InvalidDataSize")
               [] rhs.k = "Identifier" ->
                     IF ds \in IntSizes
                     THEN Emit(AddFixup(head, ds, rhs.name), Zeros(size_in_bytes(ds)))
                     ELSE Fail(c, "InvalidDataSize")
               [] OTHER -> Fail(c, "InvalidOperands")

compile_ldr_or_str(c, lhs, rhs, opcode) ==
    IF lhs.k = "Register" /\ rhs.k = "Address" /\ AddressOk(rhs.base, rhs.off)
    THEN EmitAddress(Emit(c, <<OpcodeByte(opcode), lhs.r>>), rhs.base, rhs.off)
    ELSE Fail(c, "InvalidOperands")

compile_push(c, ds, expr) ==
    CASE ds.k = "None" /\ expr.k = "Register" ->
            Emit(c, <<OpcodeByte("PushReg"), DataSizeOf(expr.r), expr.r>>)
      [] ds.k = "DataSize" /\ expr.k = "Register" ->
            Emit(c, <<OpcodeByte("PushReg"), ds.ds, expr.r>>)
      [] ds.k = "None" /\ expr.k = "Address" ->
            \* no data-size byte is emitted on this arm
            IF AddressOk(expr.base, expr.off)
            THEN EmitAddress(Emit(c, <<OpcodeByte("PushAddr")>>), expr.base, expr.off)
            ELSE Fail(c, "InvalidOperands")
      [] ds.k = "DataSize" /\ expr.k = "IntegerLiteral" ->
            Emit(c, <<OpcodeByte("PushImm"), ds.ds>> \o ImmBytes(expr.v, ds.ds))
      [] ds.k = "DataSize" /\ expr.k = "FloatLiteral" ->
            IF ds.ds \in {Float, Double}
            THEN Emit(c, <<OpcodeByte("PushImm"), ds.ds>> \o FloatBytes(expr.v, ds.ds))
            ELSE Fail(c, "InvalidDataSize")
      [] ds.k = "DataSize" /\ expr.k = "Identifier" ->
            \* the fixup has the requested size; eight zero bytes are emitted
            LET c1 == Emit(c, <<OpcodeByte("PushImm"), ds.ds>>)
            IN  Emit(AddFixup(c1, ds.ds, expr.name), Zeros(8))
      [] ds.k = "None" /\ expr.k = "Identifier" ->
            LET c1 == Emit(c, <<OpcodeByte("PushImm"), QWord>>)
            IN  Emit(AddFixup(c1, QWord, expr.name), Zeros(8))
      [] ds.k = "DataSize" /\ expr.k = "Address" ->
            IF AddressOk(expr.base, expr.off)
            THEN EmitAddress(Emit(c, <<OpcodeByte("PushAddr"), ds.ds>>), expr.base, expr.off)
            ELSE Fail(c, "InvalidOperands")
      [] OTHER -> Fail(c, "InvalidOperands")

compile_pop(c, ds, expr) ==
    CASE ds.k = "None" /\ expr.k = "Register" ->
            Emit(c, <<OpcodeByte("PopReg"), DataSizeOf(expr.r), expr.r>>)
      [] ds.k = "DataSize" /\ expr.k = "Register" ->
            Emit(c, <<OpcodeByte("PopReg"), ds.ds, expr.r>>)
      [] ds.k = "DataSize" /\ expr.k = "Address" ->
            IF AddressOk(expr.base, expr.off)
            THEN EmitAddress(Emit(c, <<OpcodeByte("PopAddr"), ds.ds>>), expr.base, expr.off)
            ELSE Fail(c, "InvalidOperands")
      [] OTHER -> Fail(c, "InvalidOperands")

ArithmeticOps == {"Add", "Sub", "Mul", "Div"}
BitwiseOps == {"And", "Or", "Xor", "Shl", "Shr"}
JumpOps == {"Jmp", "Jeq", "Jne", "Jlt", "Jgt", "Jle", "Jge"}

compile_arithmetic(c, dest, lhs, rhs, op) ==
    IF dest.k # "Register" THEN Fail(c, "InvalidOperands")
    ELSE LET ds == DataSizeOf(dest.r)
             head == Emit(c, <<OpcodeByte(op \o "RegRegImm"), dest.r, lhs.r>>)
         IN  CASE lhs.k = "Register" /\ rhs.k = "Register" ->
                     Emit(c, <<OpcodeByte(op \o "RegRegReg"), dest.r, lhs.r, rhs.r>>)
               [] lhs.k = "Register" /\ rhs.k = "IntegerLiteral" ->
                     Emit(head, ImmBytes(rhs.v, ds))
               [] lhs.k = "Register" /\ rhs.k = "FloatLiteral" ->
                     IF ds \in {Float, Double} THEN Emit(head, FloatBytes(rhs.v, ds))
                     ELSE Fail(c, "InvalidDataSize")
               [] OTHER -> Fail(c, "InvalidOperands")

IsFloatReg(r) == DataSizeOf(r) \in {Float, Double}

\* compile_bitwise that looks at the destination only (sensitivity of the
\* operand checks)
CompileBitwiseDestOnly(c, dest, lhs, rhs, op) ==
    IF dest.k # "Register" THEN Fail(c, "InvalidOperands")
    ELSE IF IsFloatReg(dest.r) THEN Fail(c, "InvalidOperands")
    ELSE CASE lhs.k = "Register" /\ rhs.k = "Register" ->
                 Emit(c, <<OpcodeByte(op \o "RegRegReg"), dest.r, lhs.r, rhs.r>>)
           [] lhs.k = "Register" /\ rhs.k = "IntegerLiteral" ->
                 Emit(c, <<OpcodeByte(op \o "RegRegImm"), dest.r, lhs.r>>
                             \o IntBytes(rhs.v, DataSizeOf(dest.r)))
           [] OTHER -> Fail(c, "InvalidOperands")

compile_bitwise(c, dest, lhs, rhs, op) ==
    IF dest.k # "Register" THEN Fail(c, "InvalidOperands")
    ELSE IF IsFloatReg(dest.r) THEN Fail(c, "InvalidOperands")
    ELSE CASE lhs.k = "Register" /\ rhs.k = "Register" ->
                 IF IsFloatReg(lhs.r) \/ IsFloatReg(rhs.r) THEN Fail(c, "InvalidOperands")
                 ELSE Emit(c, <<OpcodeByte(op \o "RegRegReg"), dest.r, lhs.r, rhs.r>>)
           [] lhs.k = "Register" /\ rhs.k = "IntegerLiteral" ->
                 IF IsFloatReg(lhs.r) THEN Fail(c, "InvalidOperands")
                 ELSE Emit(c, <<OpcodeByte(op \o "RegRegImm"), dest.r, lhs.r>>
                                  \o IntBytes(rhs.v, DataSizeOf(dest.r)))
           [] OTHER -> Fail(c, "InvalidOperands")

compile_cmp(c, lhs, rhs) ==
    IF lhs.k # "Register" THEN Fail(c, "InvalidOperands")
    ELSE LET ds == DataSizeOf(lhs.r)
             head == Emit(c, <<OpcodeByte("CmpRegImm"), lhs.r>>)
         IN  CASE rhs.k = "IntegerLiteral" -> Emit(head, ImmBytes(rhs.v, ds))
               [] rhs.k = "FloatLiteral" ->
                     IF ds \in {Float, Double} THEN Emit(head, FloatBytes(rhs.v, ds))
                     ELSE Fail(c, "InvalidDataSize")
               [] rhs.k = "Register" ->
                     Emit(c, <<OpcodeByte("CmpRegReg"), lhs.r, rhs.r>>)
               [] OTHER -> Fail(c, "InvalidOperands")

\* compile_jump (op in JumpOps) and compile_call (op = "Call")
compile_jump(c, expr, op) ==
    CASE expr.k = "IntegerLiteral" ->
            Emit(c, <<OpcodeByte(op \o "Imm")>> \o LE(expr.v, 8))
      [] expr.k = "Register" ->
            Emit(c, <<OpcodeByte(op \o "Reg"), expr.r>>)
      [] expr.k = "Identifier" ->
            LET c1 == Emit(c, <<OpcodeByte(op \o "Imm")>>)
            IN  Emit(AddFixup(c1, QWord, expr.name), Zeros(8))
      [] OTHER -> Fail(c, "InvalidOperands")

compile_call(c, expr) == compile_jump(c, expr, "Call")

compile_inc_or_dec(c, expr, opcode) ==
    IF expr.k = "Register" THEN Emit(c, <<OpcodeByte(opcode), expr.r>>)
    ELSE Fail(c, "InvalidOperands")

\* Statement::Db: each expression in turn; the first bad one fails the statement
RECURSIVE DbBytes(_, _)
DbBytes(items, i) ==
    IF i > Len(items) THEN [ok |-> TRUE, bytes |-> <<>>]
    ELSE LET rest == DbBytes(items, i + 1)
             here == IF items[i].k = "IntegerLiteral" THEN <<items[i].v % 256>>
                     ELSE items[i].bytes
         IN  IF items[i].k \notin {"IntegerLiteral", "StringLiteral"} \/ ~rest.ok
             THEN [ok |-> FALSE, bytes |-> <<>>]
             ELSE [ok |-> TRUE, bytes |-> here \o rest.bytes]

\* One iteration of the statement loop of Compiler::compile
CompileStatement(c, s) ==
    CASE s.op = "Section" -> [c EXCEPT !.current_section = s.a.s]
      [] s.op = "Entry" ->
            IF s.a.k = "IntegerLiteral"
            THEN [c EXCEPT !.entry = [kind |-> "Address", addr |-> LE(s.a.v, 8), label |-> ""]]
            ELSE IF s.a.k = "Identifier"
            THEN [c EXCEPT !.entry = [kind |-> "Fixup", addr |-> Zeros(8), label |-> s.a.name]]
            ELSE Fail(c, "InvalidOperands")
      [] s.op = "Ascii" ->
            IF s.a.k = "StringLiteral" THEN Emit(c, s.a.bytes) ELSE Fail(c, "InvalidOperands")
      [] s.op = "Asciz" ->
            IF s.a.k = "StringLiteral" THEN Emit(c, s.a.bytes \o <<0>>)
            ELSE Fail(c, "InvalidOperands")
      [] s.op = "Label" ->
            LET at == [section |-> c.current_section,
                       offset |-> len(c.bytecode, c.current_section)]
            IN  [c EXCEPT !.labels = (s.a.name :> at) @@ @]
      [] s.op = "Nop" -> Emit(c, <<OpcodeByte("Nop")>>)
      [] s.op = "Mov" -> compile_mov(c, s.a, s.b)
      [] s.op = "Ldr" -> compile_ldr_or_str(c, s.a, s.b, "Ldr")
      [] s.op = "Str" -> compile_ldr_or_str(c, s.a, s.b, "Str")
      [] s.op = "Push" -> compile_push(c, s.a, s.b)
      [] s.op = "Pop" -> compile_pop(c, s.a, s.b)
      [] s.op \in ArithmeticOps -> compile_arithmetic(c, s.a, s.b, s.c, s.op)
      [] s.op \in BitwiseOps -> compile_bitwise(c, s.a, s.b, s.c, s.op)
      [] s.op = "Cmp" -> compile_cmp(c, s.a, s.b)
      [] s.op \in JumpOps -> compile_jump(c, s.a, s.op)
      [] s.op = "Call" -> compile_call(c, s.a)
      [] s.op = "Ret" -> Emit(c, <<OpcodeByte("Ret")>>)
      [] s.op = "Inc" -> compile_inc_or_dec(c, s.a, "Inc")
      [] s.op = "Dec" -> compile_inc_or_dec(c, s.a, "Dec")
      [] s.op = "Syscall" -> Emit(c, <<OpcodeByte("Syscall")>>)
      [] s.op = "Hlt" -> Emit(c, <<OpcodeByte("Hlt")>>)
      [] s.op = "Db" ->
            LET r == DbBytes(s.a.items, 1)
            IN  IF r.ok THEN Emit(c, r.bytes) ELSE Fail(c, "InvalidExpression")
      [] s.op = "Resb" ->
            IF s.a.k = "IntegerLiteral" THEN Emit(c, Zeros(s.a.v))
            ELSE Fail(c, "InvalidExpression")
      [] OTHER -> Fail(c, "UnsupportedOperation")

\* The statement loop: stops at the first failing statement
RECURSIVE CompileStatements(_, _, _)
CompileStatements(c, prog, i) ==
    IF i > Len(prog) \/ c.err # "Ok" THEN c
    ELSE CompileStatements(CompileStatement(c, prog[i]), prog, i + 1)

\* absolute_pos of a label: its offset in text || data
absolute_pos(c, label) ==
    LET at == c.labels[label]
    IN  IF at.section = "Text" THEN at.offset
        ELSE len(c.bytecode, "Text") + at.offset

\* A fixup loop that matches the size before it looks the label up
\* (sensitivity of the error for an undefined label)
FixupErrorSizeFirst(c, f) ==
    IF f.size \notin IntSizes \/ f.label \notin DOMAIN c.labels THEN "InvalidDataSize"
    ELSE "Ok"

\* What resolving one fixup does: an error, or "Ok" and a write
FixupError(c, f) ==
    IF f.label \notin DOMAIN c.labels THEN "UndefinedLabel"
    ELSE IF f.size \notin IntSizes THEN "InvalidDataSize"
    ELSE "Ok"

\* A fixup write that is always 8 bytes wide (sensitivity of the order of
\* the fixup loop)
ApplyFixupWide(bc, c, f) ==
    write_at(bc, f.section, f.offset, LE(absolute_pos(c, f.label), 8))

\* `absolute_pos as uN` written at the fixup site
ApplyFixup(bc, c, f) ==
    write_at(bc, f.section, f.offset, LE(absolute_pos(c, f.label), size_in_bytes(f.size)))

\* The orders in which self.fixups.drain() can yield the entries of the map
RECURSIVE Drains(_)
Drains(fs) ==
    IF fs = {} THEN {<<>>}
    ELSE UNION {{<<f>> \o order : order \in Drains(fs \ {f})} : f \in fs}

\* The fixup loop when drain() yields the entries in this order
RECURSIVE ApplyFixups(_, _, _, _)
ApplyFixups(bc, c, order, i) ==
    IF i > Len(order) THEN bc
    ELSE ApplyFixups(ApplyFixup(bc, c, order[i]), c, order, i + 1)

\* The errors the fixup loop can stop with: the map is drained in no fixed
\* order, so any failing fixup can be the first one met.
FixupErrors(c) == {FixupError(c, f) : f \in c.fixups} \ {"Ok"}

\* The entry point written in the header
EntryError(c) ==
    IF c.entry.kind = "Fixup" /\ c.entry.label \notin DOMAIN c.labels
    THEN "UndefinedLabel" ELSE "Ok"

EntryValue(c) ==
    IF c.entry.kind = "Address" THEN c.entry.addr
    ELSE LE(absolute_pos(c, c.entry.label), 8)

\* Compiler::compile: the possible results for a program.  `resolved` keeps
\* the fixups that were drained, `out` is the returned image.
CompileResults(prog) ==
    LET c == CompileStatements(NewCompiler, prog, 1)
        done == [c EXCEPT !.fixups = {}]
    IN  IF c.err # "Ok"
        THEN {[c |-> c, resolved |-> {}, err |-> c.err, out |-> <<>>]}
        ELSE IF FixupErrors(c) # {}
        THEN {[c |-> c, resolved |-> {}, err |-> e, out |-> <<>>] : e \in FixupErrors(c)}
        ELSE {LET bc == ApplyFixups(c.bytecode, c, order, 1)
                  fin == [done EXCEPT !.bytecode = bc]
              IN  IF EntryError(c) # "Ok"
                  THEN [c |-> fin, resolved |-> c.fixups, err |-> EntryError(c), out |-> <<>>]
                  ELSE [c |-> fin, resolved |-> c.fixups, err |-> "Ok",
                        out |-> EntryValue(c) \o finalize(bc)] :
              order \in Drains(c.fixups)}

(***************************************************************************)
(* Immediate (parser/immediate.rs): a value tagged with its data size.     *)
(* bytes is the little-endian value (the bit pattern for Float, Double).   *)
(***************************************************************************)

Imm(ds, bytes) == [size |-> ds, bytes |-> bytes]

Known32(b) == \E h \in FloatValues : F32Bits(h) = b
Known64(b) == \E h \in FloatValues : F64Bits(h) = b
Halves32(b) == CHOOSE h \in FloatValues : F32Bits(h) = b
Halves64(b) == CHOOSE h \in FloatValues : F64Bits(h) = b
KnownFloat(imm) == IF imm.size = Float THEN Known32(imm.bytes) ELSE Known64(imm.bytes)
Halves(imm) == IF imm.size = Float THEN Halves32(imm.bytes) ELSE Halves64(imm.bytes)

\* The conversions of as_u8 .. as_f64 this model computes: all the integer
\* ones, the identity, and the numeric casts between the FloatValues.
Castable(imm, ds) ==
    \/ imm.size = ds
    \/ imm.size \in IntSizes /\ ds \in IntSizes
    \/ imm.size \in IntSizes /\ ds \notin IntSizes
          /\ IsSmall(imm.bytes) /\ Small(imm.bytes) < 128
          /\ 2 * Small(imm.bytes) \in FloatValues
    \/ imm.size \notin IntSizes /\ KnownFloat(imm)

\* as_u8, as_u16, as_u32, as_u64 (as_usize), as_f32, as_f64: the bytes of the result
Cast(imm, ds) ==
    IF imm.size = ds THEN imm.bytes
    ELSE IF imm.size \in IntSizes
    THEN IF ds \in IntSizes THEN Resize(imm.bytes, size_in_bytes(ds))
         ELSE FloatBytes(2 * Small(imm.bytes), ds)
    ELSE IF ds \in IntSizes THEN LE(Halves(imm) \div 2, size_in_bytes(ds))
         ELSE FloatBytes(Halves(imm), ds)

(***************************************************************************)
(* Registers (vm/register.rs)                                              *)
(***************************************************************************)

\* Registers::new
NewRegisters ==
    [gpr |-> [i \in 0..15 |-> Zeros(8)],
     fpr |-> [i \in 0..31 |-> Zeros(8)],
     special |-> [i \in 0..2 |-> Zeros(8)]]

\* Registers::get
get(regs, reg) ==
    LET info == physical_info(reg)
    IN  CASE info.type = "GeneralPurpose" ->
                Imm(info.view, Resize(regs.gpr[info.index], size_in_bytes(info.view)))
          [] info.type = "FloatingPoint" ->
                Imm(info.view, Resize(regs.fpr[info.index], size_in_bytes(info.view)))
          [] info.type = "Special" ->
                Imm(QWord, regs.special[info.index])

\* A partial write that clears the other bytes (sensitivity of the byte and
\* word views)
MergeClears(old, new) == Resize(new, 8)

\* low bytes from new, the others kept
Merge(old, new) == [i \in 1..8 |-> IF i <= Len(new) THEN new[i] ELSE old[i]]

\* Registers::set (the conversion of imm is Castable)
set(regs, reg, imm) ==
    LET info == physical_info(reg)
        new == Cast(imm, info.view)
    IN  CASE info.type = "GeneralPurpose" ->
                IF info.view \in {Byte, Word}
                THEN [regs EXCEPT !.gpr[info.index] = Merge(@, new)]
                ELSE [regs EXCEPT !.gpr[info.index] = Resize(new, 8)]
          [] info.type = "FloatingPoint" ->
                [regs EXCEPT !.fpr[info.index] = Resize(new, 8)]
          [] info.type = "Special" ->
                [regs EXCEPT !.special[info.index] = new]

ip(regs) == regs.special[IP_REG]
set_ip(regs, value) == [regs EXCEPT !.special[IP_REG] = value]
sp(regs) == regs.special[SP_REG]
set_sp(regs, value) == [regs EXCEPT !.special[SP_REG] = value]
bp(regs) == regs.special[BP_REG]
set_bp(regs, value) == [regs EXCEPT !.special[BP_REG] = value]

(***************************************************************************)
(* Memory (vm/memory.rs).  storage is the byte vector; addresses are 0-    *)
(* based, the sequence is 1-based.                                         *)
(***************************************************************************)

\* A memory that is not cleared (sensitivity of the load-state property)
DirtyMemory(size) == [i \in 1..size |-> 170]

\* Memory::new
NewMemory(size) == Zeros(size)

\* The check `addr + W > self.storage.len()` and the slice that follows it.
\* The sum overflows usize when addr is within W of 2^64: a debug build panics
\* on the addition; a release build wraps, and then either the wrapped sum
\* exceeds len (the error is returned) or the indexing panics.
Access(bld, storage, addr, w) ==
    LET s == Add64(addr, USize(w))
    IN  IF s.overflow
        THEN IF bld = "release" /\ GtN(s.sum, Len(storage))
             THEN "InstructionPointerOutOfBounds" ELSE "Panic"
        ELSE IF GtN(s.sum, Len(storage)) THEN "InstructionPointerOutOfBounds"
        ELSE "Ok"

\* Memory::read
read(bld, storage, addr, size) ==
    LET w == size_in_bytes(size)
        st == Access(bld, storage, addr, w)
    IN  [status |-> st,
         value |-> IF st = "Ok"
                   THEN Imm(size, SubSeq(storage, Small(addr) + 1, Small(addr) + w))
                   ELSE Imm(size, Zeros(w))]

\* Memory::write
write(bld, storage, addr, value, size) ==
    LET w == size_in_bytes(size)
        st == Access(bld, storage, addr, w)
    IN  [status |-> st,
         storage |-> IF st = "Ok" THEN Overwrite(storage, Small(addr), Cast(value, size))
                     ELSE storage]

(***************************************************************************)
(* VM (vm/mod.rs)                                                          *)
(***************************************************************************)

NewFlags == [eq |-> FALSE, lt |-> FALSE]

\* No VM yet: VM::new has not been called.
NoVM ==
    [status |-> "None", regs |-> NewRegisters, mem |-> <<>>,
     flags |-> NewFlags, halted |-> FALSE]

\* VM::new with the size check ahead of the entry-point check (sensitivity of
\* the error-order property)
VMNewSizeFirst(prog, size) ==
    LET entry_point == SubSeq(prog, 1, 8)
        program_data == SubSeq(prog, 9, Len(prog))
        regs == set_ip(set_bp(set_sp(NewRegisters, USize(size)), USize(0)), entry_point)
    IN  IF Len(prog) < 8 THEN [NoVM EXCEPT !.status = "ProgramTooSmall"]
        ELSE IF Len(program_data) > size
        THEN [NoVM EXCEPT !.status = "ProgramTooLarge"]
        ELSE IF GeN(entry_point, Len(program_data))
        THEN [NoVM EXCEPT !.status = "InvalidEntryPoint"]
        ELSE [status |-> "Ok",
              regs |-> regs,
              mem |-> Overwrite(NewMemory(size), 0, program_data),
              flags |-> NewFlags,
              halted |-> FALSE]

\* VM::new that copies the header into memory with the body and starts after
\* it (sensitivity of the IP of a loaded program)
VMNewKeepsHeader(prog, size) ==
    LET entry_point == SubSeq(prog, 1, 8)
        program_data == SubSeq(prog, 9, Len(prog))
        regs == set_ip(set_bp(set_sp(NewRegisters, USize(size)), USize(0)),
                       Add64(entry_point, USize(8)).sum)
    IN  IF Len(prog) < 8 THEN [NoVM EXCEPT !.status = "ProgramTooSmall"]
        ELSE IF GeN(entry_point, Len(program_data))
        THEN [NoVM EXCEPT !.status = "InvalidEntryPoint"]
        ELSE IF Len(prog) > size
        THEN [NoVM EXCEPT !.status = "ProgramTooLarge"]
        ELSE [status |-> "Ok",
              regs |-> regs,
              mem |-> Overwrite(NewMemory(size), 0, prog),
              flags |-> NewFlags,
              halted |-> FALSE]

\* VM::new(program, mem_size)
VMNew(prog, size) ==
    LET entry_point == SubSeq(prog, 1, 8)
        program_data == SubSeq(prog, 9, Len(prog))
        regs == set_ip(set_bp(set_sp(NewRegisters, USize(size)), USize(0)), entry_point)
    IN  IF Len(prog) < 8 THEN [NoVM EXCEPT !.status = "ProgramTooSmall"]
        ELSE IF GeN(entry_point, Len(program_data))
        THEN [NoVM EXCEPT !.status = "InvalidEntryPoint"]
        ELSE IF Len(program_data) > size
        THEN [NoVM EXCEPT !.status = "ProgramTooLarge"]
        ELSE [status |-> "Ok",
              regs |-> regs,
              mem |-> Overwrite(NewMemory(size), 0, program_data),
              flags |-> NewFlags,
              halted |-> FALSE]

(***************************************************************************)
(* The decoder of VM::step: the reads each opcode's arm makes, in order.   *)
(* A field is what one read returned and the IP it left:                   *)
(*   k = "reg" | "size" | "variant" (v is the byte)                        *)
(*   k = "imm" | "qword"            (b is the little-endian value)         *)
(***************************************************************************)

RRROps == {"AddRegRegReg", "SubRegRegReg", "MulRegRegReg", "DivRegRegReg"}
RRIOps == {"AddRegRegImm", "SubRegRegImm", "MulRegRegImm", "DivRegRegImm"}
BitRRROps == {"AndRegRegReg", "OrRegRegReg", "XorRegRegReg", "ShlRegRegReg", "ShrRegRegReg"}
BitRRIOps == {"AndRegRegImm", "OrRegRegImm", "XorRegRegImm", "ShlRegRegImm", "ShrRegRegImm"}
JumpImmOps == {"JmpImm", "JeqImm", "JneImm", "JltImm", "JgtImm", "JleImm", "JgeImm"}
JumpRegOps == {"JmpReg", "JeqReg", "JneReg", "JltReg", "JgtReg", "JleReg", "JgeReg"}

\* The reads of each arm of the match in VM::step:
\*   "reg" read_register, "size" read_data_size, "qword" read_qword,
\*   "imm" the immediate sized by the first register read,
\*   "simm" the immediate sized by the data size read,
\*   "bimm" as "imm", InvalidDataSize for a floating-point first register,
\*   "addr" the addressing variant, its base and the offset.
Operands(op) ==
    CASE op \in {"Nop", "Ret", "Syscall", "Hlt"} -> <<>>
      [] op \in {"MovRegReg", "CmpRegReg"} -> <<"reg", "reg">>
      [] op \in {"MovRegImm", "CmpRegImm"} -> <<"reg", "imm">>
      [] op \in {"Ldr", "Str"} -> <<"reg", "addr">>
      [] op \in {"PushReg", "PopReg"} -> <<"size", "reg">>
      [] op = "PushImm" -> <<"size", "simm">>
      [] op \in {"PushAddr", "PopAddr"} -> <<"size", "addr">>
      [] op \in RRROps \cup BitRRROps -> <<"reg", "reg", "reg">>
      [] op \in RRIOps -> <<"reg", "reg", "imm">>
      [] op \in BitRRIOps -> <<"reg", "reg", "bimm">>
      [] op \in JumpImmOps \cup {"CallImm"} -> <<"qword">>
      [] op \in JumpRegOps \cup {"CallReg", "Inc", "Dec"} -> <<"reg">>

Field(k, v, b, at) == [k |-> k, v |-> v, b |-> b, ip |-> at]

\* A read that needs one byte more than it reads (sensitivity of the bound
\* of the reads)
ReadOkStrict(storage, a, w) == a + w < Len(storage)

\* read_byte, read_word, read_dword, read_qword at a = IP (a number: the
\* opcode fetch succeeded, so IP is below memory.len() + 16)
ReadOk(storage, a, w) == a + w <= Len(storage)
ReadBytes(storage, a, w) == SubSeq(storage, a + 1, a + w)

RECURSIVE ReadFields(_, _, _, _)
ReadFields(storage, a, pat, fs) ==
    IF pat = <<>> THEN [err |-> "Ok", ip |-> a, f |-> fs]
    ELSE LET k == Head(pat)
             rest == Tail(pat)
             oob == [err |-> "InstructionPointerOutOfBounds", ip |-> a, f |-> fs]
             byte == storage[a + 1]
             w == IF k = "simm" THEN size_in_bytes(fs[1].v)
                  ELSE IF k = "qword" THEN 8
                  ELSE size_in_bytes(DataSizeOf(fs[1].v))
         IN  CASE k = "reg" ->
                     IF ~ReadOk(storage, a, 1) THEN oob
                     ELSE IF byte \notin Registers
                     THEN [err |-> "InvalidRegister", ip |-> a + 1, f |-> fs]
                     ELSE ReadFields(storage, a + 1, rest,
                                     Append(fs, Field("reg", byte, <<>>, a + 1)))
               [] k = "size" ->
                     IF ~ReadOk(storage, a, 1) THEN oob
                     ELSE IF byte \notin DataSizes
                     THEN [err |-> "InvalidDataSize", ip |-> a + 1, f |-> fs]
                     ELSE ReadFields(storage, a + 1, rest,
                                     Append(fs, Field("size", byte, <<>>, a + 1)))
               [] k = "addr" ->
                     IF ~ReadOk(storage, a, 1) THEN oob
                     ELSE IF byte \notin {ADDRESSING_VARIANT_1, ADDRESSING_VARIANT_2}
                     THEN [err |-> "UnknownAddressingVariant", ip |-> a + 1, f |-> fs]
                     ELSE ReadFields(storage, a + 1,
                                     (IF byte = ADDRESSING_VARIANT_1
                                      THEN <<"reg", "qword">> ELSE <<"qword", "qword">>)
                                     \o rest,
                                     Append(fs, Field("variant", byte, <<>>, a + 1)))
               [] k = "bimm" /\ IsFloatReg(fs[1].v) ->
                     [err |-> "InvalidDataSize", ip |-> a, f |-> fs]
               [] OTHER ->
                     IF ~ReadOk(storage, a, w) THEN oob
                     ELSE ReadFields(storage, a + w, rest,
                                     Append(fs, Field(IF k = "qword" THEN "qword" ELSE "imm",
                                                      0, ReadBytes(storage, a, w), a + w)))

\* A fetch that reports an out-of-range IP as a bad opcode (sensitivity of the
\* fetch property)
DecodeBadFetch(storage, at) ==
    IF GeN(at, Len(storage))
    THEN [err |-> "InvalidOpcode", opcode |-> "", ip |-> at, f |-> <<>>]
    ELSE LET a == Small(at)
             byte == storage[a + 1]
         IN  IF byte >= Len(Opcodes)
             THEN [err |-> "InvalidOpcode", opcode |-> "", ip |-> USize(a + 1), f |-> <<>>]
             ELSE LET r == ReadFields(storage, a + 1, Operands(Opcodes[byte + 1]), <<>>)
                  IN  [err |-> r.err, opcode |-> Opcodes[byte + 1],
                       ip |-> USize(r.ip), f |-> r.f]

\* The opcode fetch and the operand reads of one step, from IP = at (bytes).
Decode(storage, at) ==
    IF GeN(at, Len(storage))
    THEN [err |-> "InstructionPointerOutOfBounds", opcode |-> "", ip |-> at, f |-> <<>>]
    ELSE LET a == Small(at)
             byte == storage[a + 1]
         IN  IF byte >= Len(Opcodes)
             THEN [err |-> "InvalidOpcode", opcode |-> "", ip |-> USize(a + 1), f |-> <<>>]
             ELSE LET r == ReadFields(storage, a + 1, Operands(Opcodes[byte + 1]), <<>>)
                  IN  [err |-> r.err, opcode |-> Opcodes[byte + 1],
                       ip |-> USize(r.ip), f |-> r.f]

(***************************************************************************)
(* The effects of VM::step                                                 *)
(***************************************************************************)

Done(v, st) == [v EXCEPT !.status = st]

\* A push that moves SP and stores nothing (sensitivity of CALL and RET)
PushNoStore(bld, v, value) ==
    LET size_bytes == size_in_bytes(value.size)
    IN  IF LtN(sp(v.regs), size_bytes) THEN Done(v, "StackOverflow")
        ELSE [v EXCEPT !.regs = set_sp(@, Sub64(sp(v.regs), USize(size_bytes)))]

\* VM::push
push(bld, v, value) ==
    LET size_bytes == size_in_bytes(value.size)
        current_sp == sp(v.regs)
        new_sp == Sub64(current_sp, USize(size_bytes))
        w == write(bld, v.mem, new_sp, value, value.size)
    IN  IF LtN(current_sp, size_bytes) THEN Done(v, "StackOverflow")
        ELSE [v EXCEPT !.regs = set_sp(@, new_sp), !.mem = w.storage, !.status = w.status]

\* A pop that reads the value and leaves SP where it was (sensitivity of the
\* push/pop round trip)
PopKeepsSP(bld, v, size) ==
    LET r == read(bld, v.mem, sp(v.regs), size)
    IN  IF r.status # "Ok" THEN [vm |-> Done(v, r.status), value |-> r.value]
        ELSE [vm |-> v, value |-> r.value]

\* VM::pop: the VM after the call (its status is the result) and the value.
\* `current_sp + size` overflows usize when SP is within size of 2^64: a
\* debug build panics there, a release build goes on with the wrapped sum.
pop(bld, v, size) ==
    LET current_sp == sp(v.regs)
        s == Add64(current_sp, USize(size_in_bytes(size)))
        r == read(bld, v.mem, current_sp, size)
    IN  IF s.overflow /\ bld = "debug" THEN [vm |-> Done(v, "Panic"), value |-> r.value]
        ELSE IF GtN(s.sum, Len(v.mem))
        THEN [vm |-> Done(v, "StackUnderflow"), value |-> r.value]
        ELSE IF r.status # "Ok" THEN [vm |-> Done(v, r.status), value |-> r.value]
        ELSE [vm |-> [v EXCEPT !.regs = set_sp(@, s.sum)], value |-> r.value]

\* regs.get(reg) at the moment field i of the instruction had just been read
RegAt(v, d, i) == get(set_ip(v.regs, USize(d.f[i].ip)), d.f[i].v)

\* self.regs.set(reg, imm)
SetReg(v, reg, imm) ==
    IF Castable(imm, physical_info(reg).view)
    THEN [v EXCEPT !.regs = set(@, reg, imm)]
    ELSE Done(v, "Unmodelled")

\* `(base + offset) as usize` of the memory operand whose variant is field k.
\* The u64 addition panics on overflow in a debug build and wraps in release.
Addr(bld, v, d, k) ==
    LET base == IF d.f[k].v = ADDRESSING_VARIANT_1
                THEN RegAt(v, d, k + 1) ELSE Imm(QWord, d.f[k + 1].b)
        s == Add64(Cast(base, QWord), d.f[k + 2].b)
    IN  IF ~Castable(base, QWord) THEN [status |-> "Unmodelled", addr |-> Zeros(8)]
        ELSE IF s.overflow /\ bld = "debug" THEN [status |-> "Panic", addr |-> s.sum]
        ELSE [status |-> "Ok", addr |-> s.sum]

\* An order on integer values that ignores the variant (sensitivity of CMP)
ImmLtByValue(l, r) ==
    IF l.size \in IntSizes /\ r.size \in IntSizes
    THEN LtBytes(Resize(l.bytes, 8), Resize(r.bytes, 8), 8)
    ELSE IF l.size # r.size THEN l.size < r.size
    ELSE Halves(l) < Halves(r)

\* derive(PartialEq, PartialOrd) on Immediate: the variant first, then the value
ImmComparable(l, r) ==
    l.size # r.size \/ l.size \in IntSizes \/ (KnownFloat(l) /\ KnownFloat(r))
ImmEq(l, r) ==
    /\ l.size = r.size
    /\ IF l.size \in IntSizes THEN l.bytes = r.bytes ELSE Halves(l) = Halves(r)
ImmLt(l, r) ==
    IF l.size # r.size THEN l.size < r.size
    ELSE IF l.size \in IntSizes THEN LtBytes(l.bytes, r.bytes, Len(l.bytes))
    ELSE Halves(l) < Halves(r)

\* A CMP whose lt is `lhs <= rhs` (sensitivity of the exclusion of the flags)
CompareLtOrEq(v, l, r) ==
    IF ImmComparable(l, r)
    THEN [v EXCEPT !.flags = [eq |-> ImmEq(l, r), lt |-> ImmLt(l, r) \/ ImmEq(l, r)]]
    ELSE Done(v, "Unmodelled")

Compare(v, l, r) ==
    IF ImmComparable(l, r)
    THEN [v EXCEPT !.flags = [eq |-> ImmEq(l, r), lt |-> ImmLt(l, r)]]
    ELSE Done(v, "Unmodelled")

\* Jump conditions in which JGT excludes equality (sensitivity of the jumps)
TakenStrict(op, flags) ==
    CASE op \in {"JmpImm", "JmpReg"} -> TRUE
      [] op \in {"JeqImm", "JeqReg"} -> flags.eq
      [] op \in {"JneImm", "JneReg"} -> ~flags.eq
      [] op \in {"JltImm", "JltReg"} -> flags.lt
      [] op \in {"JgtImm", "JgtReg"} -> ~flags.lt /\ ~flags.eq
      [] op \in {"JleImm", "JleReg"} -> flags.lt \/ flags.eq
      [] op \in {"JgeImm", "JgeReg"} -> ~flags.lt \/ flags.eq

\* The condition of each jump on the flags
Taken(op, flags) ==
    CASE op \in {"JmpImm", "JmpReg"} -> TRUE
      [] op \in {"JeqImm", "JeqReg"} -> flags.eq
      [] op \in {"JneImm", "JneReg"} -> ~flags.eq
      [] op \in {"JltImm", "JltReg"} -> flags.lt
      [] op \in {"JgtImm", "JgtReg"} -> ~flags.lt
      [] op \in {"JleImm", "JleReg"} -> flags.lt \/ flags.eq
      [] op \in {"JgeImm", "JgeReg"} -> ~flags.lt \/ flags.eq

\* Arithmetic in which an addition that overflows gives the largest value
\* (sensitivity of the wrapping arithmetic)
WrappingSaturating(op, l, r, ds) ==
    LET w == size_in_bytes(ds)
        a == Resize(l, w)
        b == Resize(r, w)
    IN  CASE op \in {"AddRegRegReg", "AddRegRegImm"} ->
                IF AddCarry(a, b, 1, 0)[w + 1] = 1 THEN [i \in 1..w |-> 255]
                ELSE Resize(Add64(a, b).sum, w)
          [] op \in {"SubRegRegReg", "SubRegRegImm"} -> Resize(Sub64(a, b), w)
          [] op \in {"MulRegRegReg", "MulRegRegImm"} -> MulBytes(a, b, 1, 0)
          [] op \in {"DivRegRegReg", "DivRegRegImm"} -> DivBytes(a, Small(b), w, 0)

\* wrapping_add, wrapping_sub, wrapping_mul, wrapping_div at the width of the
\* destination (the divisor is not zero and below 2^16)
Wrapping(op, l, r, ds) ==
    LET w == size_in_bytes(ds)
        a == Resize(l, w)
        b == Resize(r, w)
    IN  CASE op \in {"AddRegRegReg", "AddRegRegImm"} -> Resize(Add64(a, b).sum, w)
          [] op \in {"SubRegRegReg", "SubRegRegImm"} -> Resize(Sub64(a, b), w)
          [] op \in {"MulRegRegReg", "MulRegRegImm"} -> MulBytes(a, b, 1, 0)
          [] op \in {"DivRegRegReg", "DivRegRegImm"} -> DivBytes(a, Small(b), w, 0)

\* The host's answer to a libc call: the return value n (-1 for an error) and
\* the byte that read() stores in each position it fills
Hosts == [n : {-1, 0, 1, 2, 8}, byte : {0, 171}]
NoHost == [n |-> 0, byte |-> 0]

\* The call handed to the host: none, or read/write with fd, the first index
\* of the guest buffer and its length
NoIO == [call |-> "none", fd |-> <<>>, addr |-> 0, count |-> 0]

\* The check `addr + count >= vm.mem.len()` of sys_read and sys_write and the
\* slice storage[addr..addr + count] after it.  The sum overflows usize when
\* addr + count >= 2^64: a debug build panics on the addition; a release
\* build wraps, and then either the wrapped sum fails the check or the slice
\* (whose end is below its start) panics.
BufferCheck(bld, storage, addr, count) ==
    LET s == Add64(addr, count)
    IN  IF s.overflow
        THEN IF bld = "release" /\ GeN(s.sum, Len(storage))
             THEN "InstructionPointerOutOfBounds" ELSE "Panic"
        ELSE IF GeN(s.sum, Len(storage)) THEN "InstructionPointerOutOfBounds"
        ELSE "Ok"

\* sys_read: the VM after the call and the call made to the host.  read()
\* fills at most count bytes and returns how many
sys_read(bld, v, host) ==
    LET fd == get(v.regs, Reg(DWord, 0)).bytes
        addr == get(v.regs, Reg(QWord, 1)).bytes
        count == get(v.regs, Reg(QWord, 2)).bytes
        st == BufferCheck(bld, v.mem, addr, count)
        n == IF host.n > Small(count) THEN Small(count) ELSE host.n
        io == [call |-> "read", fd |-> fd, addr |-> Small(addr), count |-> Small(count)]
    IN  IF st # "Ok" THEN [vm |-> Done(v, st), io |-> NoIO]
        ELSE IF n < 0 THEN [vm |-> Done(v, "IoError"), io |-> io]
        ELSE [vm |-> SetReg([v EXCEPT !.mem = Overwrite(@, Small(addr),
                                                         [i \in 1..n |-> host.byte])],
                            Reg(QWord, 0), Imm(QWord, USize(n))),
              io |-> io]

\* sys_write
sys_write(bld, v, host) ==
    LET fd == get(v.regs, Reg(DWord, 0)).bytes
        addr == get(v.regs, Reg(QWord, 1)).bytes
        count == get(v.regs, Reg(QWord, 2)).bytes
        st == BufferCheck(bld, v.mem, addr, count)
        n == IF host.n > Small(count) THEN Small(count) ELSE host.n
        io == [call |-> "write", fd |-> fd, addr |-> Small(addr), count |-> Small(count)]
    IN  IF st # "Ok" THEN [vm |-> Done(v, st), io |-> NoIO]
        ELSE IF n < 0 THEN [vm |-> Done(v, "IoError"), io |-> io]
        ELSE [vm |-> SetReg(v, Reg(QWord, 0), Imm(QWord, USize(n))), io |-> io]

\* The indices of the zero bytes of storage from index a on
Terminators(storage, a) == {i \in a..(Len(storage) - 1) : storage[i + 1] = 0}

\* sys_open: the path is the C string that CStr::from_ptr finds at
\* storage[Q0]: the bytes up to the first zero byte, with no bound.  When no
\* zero byte follows inside the memory the scan leaves the allocation
\* (undefined behaviour): either a zero byte lies right behind it and open()
\* gets a path that ends outside the memory (host.byte = 0), or the scan
\* goes on into memory that is not the guest's and the process may be
\* killed (Fault).  count is the length of the path with its terminator
sys_open(bld, v, host) ==
    LET path_addr == get(v.regs, Reg(QWord, 0)).bytes
        a == Small(path_addr)
        ends == Terminators(v.mem, a)
        nul == CHOOSE i \in ends : \A j \in ends : i <= j
        count == IF ends # {} THEN nul + 1 - a ELSE Len(v.mem) + 1 - a
        io == [call |-> "open", fd |-> <<>>, addr |-> a, count |-> count]
    IN  IF GeN(path_addr, Len(v.mem))
        THEN [vm |-> Done(v, "InstructionPointerOutOfBounds"), io |-> NoIO]
        ELSE IF ends = {} /\ host.byte # 0 THEN [vm |-> Done(v, "Fault"), io |-> NoIO]
        ELSE IF host.n < 0 THEN [vm |-> Done(v, "IoError"), io |-> io]
        ELSE [vm |-> SetReg(v, Reg(DWord, 0), Imm(DWord, LE(host.n, 4))), io |-> io]

\* Opcode::Syscall: the function that collect_syscalls registers under the
\* index in Q15.  close (1) is outside this model.
Syscall(bld, v, host) ==
    LET index == get(v.regs, Reg(QWord, 15)).bytes
    IN  IF GeN(index, 4) THEN [vm |-> Done(v, "UnknownSyscall"), io |-> NoIO]
        ELSE IF Small(index) = 0 THEN sys_open(bld, v, host)
        ELSE IF Small(index) = 2 THEN sys_read(bld, v, host)
        ELSE IF Small(index) = 3 THEN sys_write(bld, v, host)
        ELSE [vm |-> Done(v, "Unmodelled"), io |-> NoIO]

\* Arithmetic in which a division by zero writes 0 and goes on (sensitivity
\* of the division by zero).
ArithmeticDivTotal(v, d, lhs_val, rhs_val) ==
    LET dest == d.f[1].v
        ds == DataSizeOf(dest)
        w == size_in_bytes(ds)
        div == d.opcode \in {"DivRegRegReg", "DivRegRegImm"}
        divisor == Resize(rhs_val.bytes, w)
    IN  IF ds \in IntSizes /\ lhs_val.size \in IntSizes /\ rhs_val.size \in IntSizes
        THEN IF div /\ divisor = Zeros(w) THEN SetReg(v, dest, Imm(ds, Zeros(w)))
             ELSE IF div /\ \E i \in 3..w : divisor[i] # 0 THEN Done(v, "Unmodelled")
             ELSE SetReg(v, dest, Imm(ds, Wrapping(d.opcode, lhs_val.bytes, rhs_val.bytes, ds)))
        ELSE Done(v, "Unmodelled")

\* binary_arithmetic_op!, binary_arithmetic_op_imm! on the integer views.
\* wrapping_div panics when the divisor is zero.  Floating-point arithmetic
\* and division by 2^16 or more are outside this model.
Arithmetic(v, d, lhs_val, rhs_val) ==
    LET dest == d.f[1].v
        ds == DataSizeOf(dest)
        w == size_in_bytes(ds)
        div == d.opcode \in {"DivRegRegReg", "DivRegRegImm"}
        divisor == Resize(rhs_val.bytes, w)
    IN  IF ds \in IntSizes /\ lhs_val.size \in IntSizes /\ rhs_val.size \in IntSizes
        THEN IF div /\ divisor = Zeros(w) THEN Done(v, "Panic")
             ELSE IF div /\ \E i \in 3..w : divisor[i] # 0 THEN Done(v, "Unmodelled")
             ELSE SetReg(v, dest, Imm(ds, Wrapping(d.opcode, lhs_val.bytes, rhs_val.bytes, ds)))
        ELSE Done(v, "Unmodelled")

\* Opcode::Inc, Opcode::Dec
IncDec(v, d) ==
    LET reg == d.f[1].v
        value == RegAt(v, d, 1)
        one == Resize(<<1>>, Len(value.bytes))
        up == d.opcode = "Inc"
        h == IF up THEN Halves(value) + 2 ELSE Halves(value) - 2
    IN  IF value.size \in IntSizes
        THEN SetReg(v, reg, Imm(value.size,
                 IF up THEN Resize(Add64(value.bytes, one).sum, Len(value.bytes))
                 ELSE Resize(Sub64(value.bytes, one), Len(value.bytes))))
        ELSE IF KnownFloat(value) /\ h \in FloatValues
        THEN SetReg(v, reg, Imm(value.size, FloatBytes(h, value.size)))
        ELSE Done(v, "Unmodelled")

\* The arm of the match in VM::step for the decoded instruction d; v is the
\* VM with IP past the instruction.
Exec(bld, v, d, host) ==
    LET op == d.opcode
        f == d.f
        a == Addr(bld, v, d, 2)
    IN  CASE op = "Nop" -> v
          [] op = "MovRegReg" -> SetReg(v, f[1].v, RegAt(v, d, 2))
          [] op = "MovRegImm" -> SetReg(v, f[1].v, Imm(DataSizeOf(f[1].v), f[2].b))
          [] op = "Ldr" ->
                LET r == read(bld, v.mem, a.addr, DataSizeOf(f[1].v))
                IN  IF a.status # "Ok" THEN Done(v, a.status)
                    ELSE IF r.status # "Ok" THEN Done(v, r.status)
                    ELSE SetReg(v, f[1].v, r.value)
          [] op = "Str" ->
                LET w == write(bld, v.mem, a.addr, RegAt(v, d, 1), DataSizeOf(f[1].v))
                IN  IF a.status # "Ok" THEN Done(v, a.status)
                    ELSE [v EXCEPT !.mem = w.storage, !.status = w.status]
          [] op = "PushReg" ->
                LET src == RegAt(v, d, 2)
                IN  IF Castable(src, f[1].v)
                    THEN push(bld, v, Imm(f[1].v, Cast(src, f[1].v)))
                    ELSE Done(v, "Unmodelled")
          [] op = "PushImm" -> push(bld, v, Imm(f[1].v, f[2].b))
          [] op = "PushAddr" ->
                LET r == read(bld, v.mem, a.addr, f[1].v)
                IN  IF a.status # "Ok" THEN Done(v, a.status)
                    ELSE IF r.status # "Ok" THEN Done(v, r.status)
                    ELSE push(bld, v, r.value)
          [] op = "PopReg" ->
                LET p == pop(bld, v, f[1].v)
                IN  IF p.vm.status # "Ok" THEN p.vm
                    ELSE SetReg(p.vm, f[2].v, p.value)
          [] op = "PopAddr" ->
                LET p == pop(bld, v, f[1].v)
                    w == write(bld, p.vm.mem, a.addr, p.value, f[1].v)
                IN  IF a.status # "Ok" THEN Done(v, a.status)
                    ELSE IF p.vm.status # "Ok" THEN p.vm
                    ELSE [p.vm EXCEPT !.mem = w.storage, !.status = w.status]
          [] op \in RRROps -> Arithmetic(v, d, get(v.regs, f[2].v), get(v.regs, f[3].v))
          [] op \in RRIOps ->
                Arithmetic(v, d, RegAt(v, d, 2), Imm(DataSizeOf(f[1].v), f[3].b))
          [] op \in BitRRROps ->
                IF IsFloatReg(f[1].v) THEN Done(v, "InvalidDataSize")
                ELSE Done(v, "Unmodelled")
          [] op \in BitRRIOps -> Done(v, "Unmodelled")
          [] op = "CmpRegImm" ->
                Compare(v, RegAt(v, d, 1), Imm(DataSizeOf(f[1].v), f[2].b))
          [] op = "CmpRegReg" -> Compare(v, RegAt(v, d, 1), RegAt(v, d, 2))
          [] op \in JumpImmOps ->
                IF Taken(op, v.flags) THEN [v EXCEPT !.regs = set_ip(@, f[1].b)] ELSE v
          [] op \in JumpRegOps ->
                LET addr == RegAt(v, d, 1)
                IN  IF ~Castable(addr, QWord) THEN Done(v, "Unmodelled")
                    ELSE IF Taken(op, v.flags)
                    THEN [v EXCEPT !.regs = set_ip(@, Cast(addr, QWord))]
                    ELSE v
          [] op = "CallImm" ->
                LET p == push(bld, v, Imm(QWord, ip(v.regs)))
                IN  IF p.status # "Ok" THEN p
                    ELSE [p EXCEPT !.regs = set_ip(@, f[1].b)]
          [] op = "CallReg" ->
                LET addr == RegAt(v, d, 1)
                    p == push(bld, v, Imm(QWord, ip(v.regs)))
                IN  IF ~Castable(addr, QWord) THEN Done(v, "Unmodelled")
                    ELSE IF p.status # "Ok" THEN p
                    ELSE [p EXCEPT !.regs = set_ip(@, Cast(addr, QWord))]
          [] op \in {"Inc", "Dec"} -> IncDec(v, d)
          [] op = "Ret" ->
                LET p == pop(bld, v, QWord)
                IN  IF p.vm.status # "Ok" THEN p.vm
                    ELSE [p.vm EXCEPT !.regs = set_ip(@, p.value.bytes)]
          [] op = "Syscall" -> Syscall(bld, v, host).vm
          [] op = "Hlt" -> [v EXCEPT !.halted = TRUE]

\* A step that does not look at halted (sensitivity of the no-op after HLT)
StepIgnoresHalt(bld, v, host) ==
    LET d == Decode(v.mem, ip(v.regs))
        at == [v EXCEPT !.regs = set_ip(@, d.ip)]
    IN  IF d.err # "Ok" THEN Done(at, d.err) ELSE Exec(bld, at, d, host)

\* VM::step: the VM after the call; its status is the call's result
step(bld, v, host) ==
    IF v.halted THEN v
    ELSE LET d == Decode(v.mem, ip(v.regs))
             at == [v EXCEPT !.regs = set_ip(@, d.ip)]
         IN  IF d.err # "Ok" THEN Done(at, d.err)
             ELSE Exec(bld, at, d, host)

\* The call that step() hands to the host
StepIO(bld, v, host) ==
    LET d == Decode(v.mem, ip(v.regs))
        at == [v EXCEPT !.regs = set_ip(@, d.ip)]
    IN  IF ~v.halted /\ d.err = "Ok" /\ d.opcode = "Syscall"
        THEN Syscall(bld, at, host).io ELSE NoIO

\* The answers the host can give to the next step() call
HostsFor(v) ==
    IF ~v.halted /\ Decode(v.mem, ip(v.regs)).opcode = "Syscall" THEN Hosts ELSE {NoHost}

(***************************************************************************)
(* Actions                                                                 *)
(***************************************************************************)

Builds == {"debug", "release"}

NotCompiled == [c |-> NewCompiler, resolved |-> {}, err |-> "None", out |-> <<>>]
\* the image was not produced by this compiler run: a bytecode file
External == [c |-> NewCompiler, resolved |-> {}, err |-> "External", out |-> <<>>]

NoDecode == [err |-> "None", opcode |-> "", ip |-> Zeros(8), f |-> <<>>]
\* The history of the run: the number of step() calls made, the last call's
\* decoded instruction d and the VM before it (pre), the same for the call
\* before that one (pd, pp), and the calls that were open when the last step
\* began (cs): the return address and the SP before each CALL, innermost last;
\* and the call the last step handed to the host (io).
NoLast ==
    [n |-> 0, d |-> NoDecode, pre |-> NoVM, pd |-> NoDecode, pp |-> NoVM, cs |-> <<>>,
     io |-> NoIO]

\* The instruction after a CALL that began at IP = at: the opcode byte and an
\* 8-byte address, or the opcode byte and a register byte
AfterCall(d, at) == Add64(at, USize(IF d.opcode = "CallImm" THEN 9 ELSE 2)).sum

\* The open calls after the step that decoded d took the VM from pre to post
OpenCalls(cs, pre, d, post) ==
    IF d.err # "Ok" \/ post.status # "Ok" THEN cs
    ELSE IF d.opcode \in {"CallImm", "CallReg"}
    THEN Append(cs, [ret |-> AfterCall(d, ip(pre.regs)), sp |-> sp(pre.regs)])
    ELSE IF d.opcode = "Ret" /\ cs # <<>> THEN SubSeq(cs, 1, Len(cs) - 1)
    ELSE cs

\* Compiler::new(program).compile()
Compile ==
    /\ compiler.err = "None"
    /\ compiler' \in CompileResults(program)
    /\ image' = compiler'.out
    /\ UNCHANGED <<build, program, mem_size, vm, last, preprocessor>>

\* VM::new(image, mem_size)
Load ==
    /\ compiler.err \in {"Ok", "External"}
    /\ vm.status = "None"
    /\ vm' = VMNew(image, mem_size)
    /\ UNCHANGED <<build, program, compiler, image, mem_size, last, preprocessor>>

MaxSteps == 8

\* One iteration of VM::run: step() while not halted, until the first error
Step ==
    /\ vm.status = "Ok"
    /\ ~vm.halted
    /\ last.n < MaxSteps
    /\ \E host \in HostsFor(vm) :
          /\ vm' = step(build, vm, host)
          /\ last' = [n |-> last.n + 1, d |-> Decode(vm.mem, ip(vm.regs)), pre |-> vm,
                       pd |-> last.d, pp |-> last.pre,
                       cs |-> OpenCalls(last.cs, last.pre, last.d, vm),
                       io |-> StepIO(build, vm, host)]
    /\ UNCHANGED <<build, program, compiler, image, mem_size, preprocessor>>

\* step() called on a halted VM (VM::run never does; a host may)
StepHalted ==
    /\ vm.status = "Ok"
    /\ vm.halted
    /\ last.n < MaxSteps
    /\ vm' = step(build, vm, NoHost)
    /\ last' = [n |-> last.n + 1, d |-> NoDecode, pre |-> vm,
                 pd |-> last.d, pp |-> last.pre,
                 cs |-> OpenCalls(last.cs, last.pre, last.d, vm),
                 io |-> NoIO]
    /\ UNCHANGED <<build, program, compiler, image, mem_size, preprocessor>>

(***************************************************************************)
(* SpecLoad: VM::new on byte images of every short length                  *)
(***************************************************************************)

MaxBody == 3
MaxMem == 4

RECURSIVE SeqsOf(_, _)
SeqsOf(S, n) ==
    IF n = 0 THEN {<<>>}
    ELSE LET shorter == SeqsOf(S, n - 1)
         IN  shorter \cup {Append(q, x) : q \in {r \in shorter : Len(r) = n - 1}, x \in S}

\* entry points: 0 .. MaxBody + 1, and two beyond any length (the second
\* differs from a small one only in its top byte)
Headers ==
    {USize(e) : e \in 0..(MaxBody + 1)} \cup {<<255, 255, 255, 255, 255, 255, 255, 255>>}
    \cup {<<1, 0, 0, 0, 0, 0, 0, 128>>}

Images ==
    {Zeros(n) : n \in 0..7}
    \cup {h \o body : h \in Headers, body \in SeqsOf({OpcodeByte("Nop"), OpcodeByte("Hlt")}, MaxBody)}

InitLoad ==
    /\ build = "release"
    /\ program = <<>>
    /\ compiler = External
    /\ image \in Images
    /\ mem_size \in 0..MaxMem
    /\ vm = NoVM
    /\ last = NoLast
    /\ preprocessor = NoPreprocessor

NextLoad == Load

SpecLoad == InitLoad /\ [][NextLoad]_vars

(***************************************************************************)
(* SpecCompile: Compiler::compile on short programs that lay out the two   *)
(* sections, define a label after a pad and refer to it                    *)
(***************************************************************************)

MaxStatements == 4
Pad == 256

Layout ==
    {SectionS("Text"), SectionS("Data"), LabelS("L"), Stmt1("Resb", IntE(Pad))}

\* one kind of reference (or none: hlt) per program
References ==
    {Stmt1("Entry", IdE("L")),
     Stmt1("Entry", IntE(9)),
     Stmt2("Mov", RegE(Reg(Byte, 0)), IdE("L")),
     Stmt2("Push", SizeE(Word), IdE("L")),
     Stmt2("Push", SizeE(Float), IdE("L")),
     Stmt1("Jeq", IdE("L")),
     Stmt1("Call", IdE("L")),
     Stmt2("Ldr", RegE(Reg(QWord, 1)), AddrE(IdE("L"), NoneE)),
     Stmt0("Hlt")}

CompilePrograms == UNION {SeqsOf(Layout \cup {x}, MaxStatements) : x \in References}

InitCompile ==
    /\ build = "release"
    /\ program \in CompilePrograms
    /\ compiler = NotCompiled
    /\ image = <<>>
    /\ mem_size = 0
    /\ vm = NoVM
    /\ last = NoLast
    /\ preprocessor = NoPreprocessor

NextCompile == Compile

SpecCompile == InitCompile /\ [][NextCompile]_vars

(***************************************************************************)
(* SpecVM: guest programs compiled, loaded and run                         *)
(***************************************************************************)

MaxGuest == 2
GuestMem == 48

GuestInstructions ==
    {Stmt2("Push", SizeE(QWord), IntE(1)),
     Stmt2("Push", SizeE(Byte), IntE(2)),
     Stmt2("Push", NoneE, RegE(SP)),
     Stmt2("Pop", NoneE, RegE(Reg(QWord, 0))),
     Stmt2("Pop", NoneE, RegE(SP)),
     Stmt2("Pop", SizeE(QWord), AddrE(IntE(0), NoneE)),
     Stmt2("Push", SizeE(QWord), AddrE(IntE(0), NoneE)),
     Stmt2("Mov", RegE(SP), IntE(-1)),
     Stmt2("Mov", RegE(SP), IntE(3)),
     Stmt2("Mov", RegE(SP), IntE(100)),
     Stmt2("Mov", RegE(IP), IntE(5)),
     Stmt("Add", RegE(SP), RegE(SP), IntE(1)),
     Stmt1("Dec", RegE(SP)),
     Stmt1("Inc", RegE(SP)),
     Stmt1("Call", IdE("L")),
     Stmt1("Jmp", IntE(200)),
     Stmt0("Ret"),
     Stmt0("Nop"),
     Stmt0("Hlt")}

GuestPrograms == {<<LabelS("L")>> \o p : p \in SeqsOf(GuestInstructions, MaxGuest)}

InitVM ==
    /\ build \in Builds
    /\ program \in GuestPrograms
    /\ compiler = NotCompiled
    /\ image = <<>>
    /\ mem_size = GuestMem
    /\ vm = NoVM
    /\ last = NoLast
    /\ preprocessor = NoPreprocessor

NextVM == Compile \/ Load \/ Step

SpecVM == InitVM /\ [][NextVM]_vars

(***************************************************************************)
(* SpecEmit: one instruction of every accepted form, compiled, loaded and  *)
(* decoded by the first step.  The label L is defined after the            *)
(* instruction, so its address is the emitted length.                      *)
(***************************************************************************)

EmitMem == 32

RegSample ==
    {Reg(Byte, 0), Reg(Word, 1), Reg(DWord, 2), Reg(QWord, 3), Reg(Float, 4),
     Reg(Double, 5), SP}
ValueSample == {IntE(1), FloatE(3), IdE("L")}
AddrSample ==
    {AddrE(b, o) : b \in {RegE(Reg(QWord, 3)), RegE(Reg(Byte, 0)), IntE(2), IdE("L")},
                   o \in {NoneE, IntE(4)}}
SizeSample == {NoneE} \cup {SizeE(ds) : ds \in DataSizes}
SourceSample == {RegE(Reg(QWord, 3))} \cup ValueSample

EmitInstructions ==
    {Stmt2("Mov", RegE(r), x) : r \in RegSample, x \in SourceSample}
    \cup {Stmt2(op, RegE(r), a) : op \in {"Ldr", "Str"}, r \in RegSample, a \in AddrSample}
    \cup {Stmt2(op, sz, x) : op \in {"Push", "Pop"}, sz \in SizeSample,
                             x \in {RegE(r) : r \in RegSample} \cup ValueSample \cup AddrSample}
    \cup {Stmt(op, RegE(r), RegE(Reg(QWord, 3)), x) :
              op \in ArithmeticOps \cup BitwiseOps, r \in RegSample, x \in SourceSample}
    \cup {Stmt2("Cmp", RegE(r), x) : r \in RegSample, x \in SourceSample}
    \cup {Stmt1(op, x) : op \in JumpOps \cup {"Call", "Inc", "Dec"},
                         x \in {RegE(Reg(QWord, 3)), IntE(2), IdE("L")}}
    \cup {Stmt0(op) : op \in {"Nop", "Ret", "Syscall", "Hlt"}}

InitEmit ==
    /\ build = "release"
    /\ program \in {<<x, LabelS("L")>> : x \in EmitInstructions}
    /\ compiler = NotCompiled
    /\ image = <<>>
    /\ mem_size = EmitMem
    /\ vm = NoVM
    /\ last = NoLast
    /\ preprocessor = NoPreprocessor

FirstStep == last.n = 0 /\ Step

NextEmit == Compile \/ Load \/ FirstStep

SpecEmit == InitEmit /\ [][NextEmit]_vars

(***************************************************************************)
(* Properties of VM::new                                                   *)
(***************************************************************************)

Loaded == vm.status # "None"

\* C5: VM::new(image, mem_size) answers in a fixed order: ProgramTooSmall
\* exactly when the image has fewer than 8 bytes; otherwise InvalidEntryPoint
\* exactly when the header's entry point is >= len(image) - 8; otherwise
\* ProgramTooLarge exactly when len(image) - 8 > mem_size; otherwise it succeeds.
C5_LoadErrorOrder ==
    Loaded /\ last.n = 0 =>
        LET n == Len(image)
            small == n < 8
            badEntry == ~small /\ GeN(SubSeq(image, 1, 8), n - 8)
            large == ~small /\ ~badEntry /\ n - 8 > mem_size
        IN  /\ vm.status = "ProgramTooSmall" <=> small
            /\ vm.status = "InvalidEntryPoint" <=> badEntry
            /\ vm.status = "ProgramTooLarge" <=> large
            /\ vm.status = "Ok" <=> ~small /\ ~badEntry /\ ~large

\* An image whose entry point is out of range and whose code is larger than
\* the memory: both later checks would fire, the entry-point one answers.
C5_Witness ==
    /\ vm.status = "InvalidEntryPoint"
    /\ Len(image) - 8 > mem_size
    /\ Len(image) > 8

\* C6: after VM::new succeeds, IP is the entry point, SP is mem_size, BP is 0,
\* both flags are false, halted is false, every general-purpose and
\* floating-point register is 0, memory[0 .. len(code)) is the code and every
\* other byte of memory is 0.
C6_LoadState ==
    vm.status = "Ok" /\ last.n = 0 =>
        /\ ip(vm.regs) = SubSeq(image, 1, 8)
        /\ sp(vm.regs) = USize(mem_size)
        /\ bp(vm.regs) = USize(0)
        /\ vm.flags = [eq |-> FALSE, lt |-> FALSE]
        /\ vm.halted = FALSE
        /\ \A i \in 0..15 : vm.regs.gpr[i] = Zeros(8)
        /\ \A i \in 0..31 : vm.regs.fpr[i] = Zeros(8)
        /\ Len(vm.mem) = mem_size
        /\ \A i \in 1..mem_size :
              vm.mem[i] = IF i <= Len(image) - 8 THEN image[8 + i] ELSE 0

\* A successful load with a nonzero entry point and memory beyond the code
C6_Witness ==
    /\ vm.status = "Ok"
    /\ last.n = 0
    /\ ip(vm.regs) # Zeros(8)
    /\ mem_size > Len(image) - 8
    /\ \E i \in 1..(Len(image) - 8) : vm.mem[i] # 0

(***************************************************************************)
(* The instruction a statement denotes: its opcode and, in the order of    *)
(* the encoding, its registers, data size, addressing variant and operand  *)
(* values.  at is the address of the label L.                              *)
(***************************************************************************)

E(k, v, b) == [k |-> k, v |-> v, b |-> b]
AnySize == 0 - 1

\* the value of an operand at data size ds
ValueOf(x, ds, at) ==
    CASE x.k = "IntegerLiteral" ->
            IF ds \in IntSizes THEN LE(x.v, size_in_bytes(ds)) ELSE FloatBytes(2 * x.v, ds)
      [] x.k = "FloatLiteral" -> FloatBytes(x.v, ds)
      [] x.k = "Identifier" -> LE(at, size_in_bytes(ds))

AddrOf(x, at) ==
    LET off == E("qword", 0, IF x.off.k = "None" THEN Zeros(8) ELSE LE(x.off.v, 8))
    IN  IF x.base.k = "Register"
        THEN <<E("variant", 0, <<>>), E("reg", x.base.r, <<>>), off>>
        ELSE <<E("variant", 1, <<>>), E("qword", 0, ValueOf(x.base, QWord, at)), off>>

\* the data size a PUSH or POP works at
StackSize(sz, x) ==
    IF sz.k = "DataSize" THEN sz.ds
    ELSE IF x.k = "Register" THEN DataSizeOf(x.r)
    ELSE IF x.k = "Identifier" THEN QWord
    ELSE AnySize


Denotes(st, at) ==
    LET a == st.a
        b == st.b
        c == st.c
        ra == E("reg", a.r, <<>>)
    IN  CASE st.op \in {"Nop", "Ret", "Syscall", "Hlt"} -> [opcode |-> st.op, f |-> <<>>]
          [] st.op \in {"Mov", "Cmp"} ->
                IF b.k = "Register"
                THEN [opcode |-> st.op \o "RegReg", f |-> <<ra, E("reg", b.r, <<>>)>>]
                ELSE [opcode |-> st.op \o "RegImm",
                      f |-> <<ra, E("imm", 0, ValueOf(b, DataSizeOf(a.r), at))>>]
          [] st.op \in {"Ldr", "Str"} -> [opcode |-> st.op, f |-> <<ra>> \o AddrOf(b, at)]
          [] st.op \in {"Push", "Pop"} ->
                LET size == E("size", StackSize(a, b), <<>>)
                IN  IF b.k = "Register"
                    THEN [opcode |-> st.op \o "Reg", f |-> <<size, E("reg", b.r, <<>>)>>]
                    ELSE IF b.k = "Address"
                    THEN [opcode |-> st.op \o "Addr", f |-> <<size>> \o AddrOf(b, at)]
                    ELSE [opcode |-> st.op \o "Imm",
                          f |-> <<size, E("imm", 0, ValueOf(b, StackSize(a, b), at))>>]
          [] st.op \in ArithmeticOps \cup BitwiseOps ->
                IF c.k = "Register"
                THEN [opcode |-> st.op \o "RegRegReg",
                      f |-> <<ra, E("reg", b.r, <<>>), E("reg", c.r, <<>>)>>]
                ELSE [opcode |-> st.op \o "RegRegImm",
                      f |-> <<ra, E("reg", b.r, <<>>),
                              E("imm", 0, ValueOf(c, DataSizeOf(a.r), at))>>]
          [] st.op \in {"Inc", "Dec"} -> [opcode |-> st.op, f |-> <<ra>>]
          [] st.op \in JumpOps \cup {"Call"} ->
                IF a.k = "Register" THEN [opcode |-> st.op \o "Reg", f |-> <<ra>>]
                ELSE [opcode |-> st.op \o "Imm", f |-> <<E("qword", 0, ValueOf(a, QWord, at))>>]

FieldMatches(e, f) ==
    /\ f.k = e.k
    /\ f.b = e.b
    /\ f.v = e.v \/ (e.k = "size" /\ e.v = AnySize)

\* the first step decoded exactly what the statement denotes, and IP moved
\* past the emitted bytes
RoundTrip(st, text, d) ==
    LET e == Denotes(st, Len(text))
    IN  /\ d.err = "Ok"
        /\ d.ip = USize(Len(text))
        /\ d.opcode = e.opcode
        /\ Len(d.f) = Len(e.f)
        /\ \A i \in 1..Len(e.f) : i <= Len(d.f) => FieldMatches(e.f[i], d.f[i])

Emitted == compiler.err = "Ok" /\ Len(program) = 2 /\ last.n = 1

\* C1: for every instruction form the compiler accepts (PUSH and POP with and
\* without a size, on register, immediate, identifier and memory operands
\* included), decoding the emitted bytes at their start yields the same
\* opcode, registers, data size and operand values, and IP advances by
\* exactly the emitted length.
C1_EmitDecodeRoundTrip ==
    Emitted => RoundTrip(program[1], compiler.c.bytecode.text, last.d)

(***************************************************************************)
(* Properties of Compiler::compile                                         *)
(***************************************************************************)

Compiled == compiler.err = "Ok"

\* the bytes at a fixup site after compile
Site(f) ==
    LET buf == IF f.section = "Text" THEN compiler.c.bytecode.text
               ELSE compiler.c.bytecode.data
    IN  SubSeq(buf, f.offset + 1, f.offset + size_in_bytes(f.size))

\* the site decodes, little-endian, to the number n
Holds(f, n) == IsSmall(Site(f)) /\ Small(Site(f)) = n

\* C2: after a successful compile, every fixup site (an operand of MOV, PUSH,
\* JMP/Jcc or CALL, or an address base, that named a label, at any requested
\* size) holds the little-endian encoding of that label's absolute offset in
\* text || data.
C2_FixupSitesHoldLabelOffset ==
    Compiled => \A f \in compiler.resolved : Holds(f, absolute_pos(compiler.c, f.label))

\* C3: every image a successful compile returns has at least 8 bytes and its
\* header, read as a little-endian u64, is below len(image) - 8: the empty
\* program, a data-only program and `.entry <integer>` included.
C3_ImageEntryInRange ==
    Compiled => Len(image) >= 8 /\ LtN(SubSeq(image, 1, 8), Len(image) - 8)

\* C4: a label defined in the data section at data offset d resolves, at
\* every reference and in the header of `.entry`, to len(final text) + d,
\* however the text and data sections are interleaved.
C4_DataLabelsAfterText ==
    Compiled =>
        LET c == compiler.c
            InData(l) == l \in DOMAIN c.labels /\ c.labels[l].section = "Data"
            target(l) == Len(c.bytecode.text) + c.labels[l].offset
        IN  /\ \A f \in compiler.resolved : InData(f.label) => Holds(f, target(f.label))
            /\ c.entry.kind = "Fixup" /\ InData(c.entry.label)
                  => SubSeq(image, 1, 8) = USize(target(c.entry.label))

(***************************************************************************)
(* Properties of the running VM                                            *)
(***************************************************************************)

Running == vm.status \notin {"None", "ProgramTooSmall", "InvalidEntryPoint", "ProgramTooLarge"}
Stepped == Running /\ last.n > 0

\* C7: SP is within [0, memory.len()] in every reachable state of the VM,
\* programs that write SP with MOV, POP, arithmetic or INC/DEC included.
C7_SPInRange == Running => ~GtN(sp(vm.regs), Len(vm.mem))

\* C8 as stated: 0 <= IP <= memory.len() at the beginning of every step,
\* after jumps, calls and returns to any target and writes of the IP register.
C8_IPInRangeAtStep == Stepped => ~GtN(ip(last.pre.regs), Len(last.pre.mem))

\* C8: IP is checked when a step begins, not when it is written.  A step that
\* begins with IP >= memory.len() fails with InstructionPointerOutOfBounds
\* and changes nothing; a step that begins with IP < memory.len() fetches
\* its opcode byte and leaves IP past it.
C8_FetchChecksIP ==
    Stepped =>
        IF GeN(ip(last.pre.regs), Len(last.pre.mem))
        THEN vm = [last.pre EXCEPT !.status = "InstructionPointerOutOfBounds"]
        ELSE /\ last.d.opcode # "" \/ last.d.err = "InvalidOpcode"
             /\ GtN(last.d.ip, Small(ip(last.pre.regs)))

\* A step that began with IP beyond the memory, after a jump to 200
C8_Witness ==
    /\ Stepped
    /\ GtN(ip(last.pre.regs), Len(last.pre.mem))
    /\ vm.status = "InstructionPointerOutOfBounds"

PushStep == Stepped /\ last.d.err = "Ok" /\ last.d.opcode \in {"PushImm", "PushReg"}

\* C9: a push of width W succeeds exactly when SP >= W; on success SP is lower
\* by exactly W and the value is stored little-endian at
\* memory[SP_new .. SP_new + W); when SP < W it fails with StackOverflow and
\* SP and memory are unchanged.
C9_Push ==
    PushStep =>
        LET d == last.d
            W == size_in_bytes(d.f[1].v)
            before == sp(last.pre.regs)
            value == IF d.opcode = "PushImm" THEN d.f[2].b
                     ELSE Cast(RegAt(last.pre, d, 2), d.f[1].v)
            new_sp == Small(sp(vm.regs))
        IN  /\ vm.status = "Ok" <=> GeN(before, W)
            /\ vm.status = "Ok" =>
                  /\ sp(vm.regs) = Sub64(before, USize(W))
                  /\ SubSeq(vm.mem, new_sp + 1, new_sp + W) = value
            /\ LtN(before, W) =>
                  /\ vm.status = "StackOverflow"
                  /\ sp(vm.regs) = before
                  /\ vm.mem = last.pre.mem

\* a POP into a general-purpose register of the popped size, or a RET
PopStep ==
    /\ Stepped
    /\ last.d.err = "Ok"
    /\ \/ last.d.opcode = "Ret"
       \/ /\ last.d.opcode = "PopReg"
          /\ physical_info(last.d.f[2].v).type = "GeneralPurpose"
          /\ DataSizeOf(last.d.f[2].v) = last.d.f[1].v

\* C10: a pop of width W succeeds exactly when SP + W <= memory.len(); on
\* success it returns the little-endian value at memory[SP .. SP + W) and SP
\* is higher by exactly W; otherwise it fails with StackUnderflow and SP, the
\* IP target and the destination are unchanged.
C10_Pop ==
    PopStep =>
        LET d == last.d
            size == IF d.opcode = "Ret" THEN QWord ELSE d.f[1].v
            W == size_in_bytes(size)
            before == sp(last.pre.regs)
            s == Add64(before, USize(W))
            fits == ~s.overflow /\ ~GtN(s.sum, Len(last.pre.mem))
            at == Small(before)
            got == IF d.opcode = "Ret" THEN ip(vm.regs)
                   ELSE get(vm.regs, d.f[2].v).bytes
        IN  /\ vm.status = "Ok" <=> fits
            /\ vm.status = "Ok" =>
                  /\ sp(vm.regs) = s.sum
                  /\ got = SubSeq(last.pre.mem, at + 1, at + W)
            /\ ~fits =>
                  /\ vm.status = "StackUnderflow"
                  /\ sp(vm.regs) = before
                  /\ ip(vm.regs) = d.ip
                  /\ vm.regs.gpr = last.pre.regs.gpr

(***************************************************************************)
(* SpecStack: a push of each size and source followed by a pop             *)
(***************************************************************************)

StackSetups ==
    {<<>>,
     <<Stmt2("Mov", RegE(SP), IntE(8))>>,
     <<Stmt2("Mov", RegE(SP), IntE(4))>>,
     <<Stmt2("Mov", RegE(Reg(QWord, 1)), IntE(-1234567))>>,
     <<Stmt2("Mov", RegE(Reg(Float, 1)), FloatE(3))>>,
     <<Stmt2("Mov", RegE(Reg(Double, 1)), FloatE(4))>>}

StackPushes ==
    {Stmt2("Push", SizeE(Byte), IntE(2)),
     Stmt2("Push", SizeE(Word), IntE(-2)),
     Stmt2("Push", SizeE(DWord), IntE(-3)),
     Stmt2("Push", SizeE(QWord), IntE(-1234567)),
     Stmt2("Push", SizeE(Float), FloatE(3)),
     Stmt2("Push", SizeE(Double), FloatE(4)),
     Stmt2("Push", SizeE(QWord), AddrE(IntE(0), NoneE)),
     Stmt2("Push", SizeE(Word), AddrE(IntE(1), NoneE))}
    \cup {Stmt2("Push", NoneE, RegE(Reg(view, 1))) : view \in DataSizes}
    \cup {Stmt2("Push", SizeE(Word), RegE(Reg(QWord, 1)))}

StackPops ==
    {Stmt2("Pop", NoneE, RegE(Reg(view, 0))) : view \in DataSizes}
    \cup {Stmt2("Pop", SizeE(ds), AddrE(IntE(40), NoneE)) : ds \in {Word, QWord}}

StackPrograms ==
    {s \o <<a, b>> : s \in StackSetups, a \in StackPushes, b \in StackPops}

InitStack ==
    /\ build \in Builds
    /\ program \in StackPrograms
    /\ compiler = NotCompiled
    /\ image = <<>>
    /\ mem_size = GuestMem
    /\ vm = NoVM
    /\ last = NoLast
    /\ preprocessor = NoPreprocessor

NextStack == Compile \/ Load \/ Step

SpecStack == InitStack /\ [][NextStack]_vars

(***************************************************************************)
(* C11: push then pop                                                      *)
(***************************************************************************)

PushOps == {"PushImm", "PushReg", "PushAddr"}

\* The value a decoded push instruction d pushes from the VM before, v
Pushed(bld, v, d) ==
    LET at == [v EXCEPT !.regs = set_ip(@, d.ip)]
    IN  CASE d.opcode = "PushImm" -> d.f[2].b
          [] d.opcode = "PushReg" -> Cast(RegAt(at, d, 2), d.f[1].v)
          [] d.opcode = "PushAddr" ->
                read(bld, v.mem, Addr(bld, at, d, 2).addr, d.f[1].v).value.bytes

\* The last two steps were a push that succeeded and a pop of the same size
\* into a general-purpose or floating-point register of that size, or to an
\* address within the memory.
PushThenPop ==
    /\ Running
    /\ last.n >= 2
    /\ last.pd.err = "Ok" /\ last.pd.opcode \in PushOps
    /\ last.d.err = "Ok" /\ last.d.opcode \in {"PopReg", "PopAddr"}
    /\ last.d.f[1].v = last.pd.f[1].v
    /\ last.d.opcode = "PopReg" =>
          /\ physical_info(last.d.f[2].v).type # "Special"
          /\ DataSizeOf(last.d.f[2].v) = last.d.f[1].v
    /\ last.d.opcode = "PopAddr" =>
          LET at == [last.pre EXCEPT !.regs = set_ip(@, last.d.ip)]
              a == Addr(build, at, last.d, 2)
          IN  /\ a.status = "Ok"
              /\ Access(build, last.pre.mem, a.addr, size_in_bytes(last.d.f[1].v)) = "Ok"

\* C11: for a value V of any data size, a push of V that succeeds, followed
\* at once by a pop of V's size, yields exactly V (in the destination
\* register or at the destination address) and leaves SP as it was before
\* the push.
C11_PushPop ==
    PushThenPop =>
        LET V == Pushed(build, last.pp, last.pd)
            at == [last.pre EXCEPT !.regs = set_ip(@, last.d.ip)]
            a == Addr(build, at, last.d, 2).addr
        IN  /\ vm.status = "Ok"
            /\ sp(vm.regs) = sp(last.pp.regs)
            /\ IF last.d.opcode = "PopReg"
               THEN get(vm.regs, last.d.f[2].v).bytes = V
               ELSE SubSeq(vm.mem, Small(a) + 1, Small(a) + Len(V)) = V

\* -1234567 pushed as a qword from SP = 48 and popped into q0
C11_Witness ==
    /\ PushThenPop
    /\ last.pd.opcode = "PushImm" /\ last.d.opcode = "PopReg"
    /\ get(vm.regs, Reg(QWord, 0)).bytes = LE(-1234567, 8)
    /\ sp(vm.regs) = USize(GuestMem)

(***************************************************************************)
(* SpecFlow: calls, returns, jumps and HLT                                 *)
(***************************************************************************)

\* Callee bodies: the first four pop only what they pushed and store nothing
\* into the caller's part of the stack; the last leaves one value pushed.
CalleeBodies ==
    {<<>>,
     <<Stmt0("Nop")>>,
     <<Stmt1("Inc", RegE(Reg(QWord, 2)))>>,
     <<Stmt2("Push", SizeE(QWord), IntE(1)), Stmt2("Pop", NoneE, RegE(Reg(QWord, 3)))>>,
     <<Stmt2("Push", SizeE(QWord), IntE(1))>>}

Callers ==
    {<<Stmt1("Call", IdE("F"))>>,
     <<Stmt2("Mov", RegE(Reg(QWord, 0)), IdE("F")), Stmt1("Call", RegE(Reg(QWord, 0)))>>,
     <<Stmt2("Mov", RegE(SP), IntE(4)), Stmt1("Call", IdE("F"))>>}

CallPrograms ==
    {c \o <<Stmt0("Hlt"), LabelS("F")>> \o b \o <<Stmt0("Ret")>> :
        c \in Callers, b \in CalleeBodies}
    \cup {c \o <<Stmt0("Hlt"), LabelS("F"), Stmt1("Call", IdE("G")), Stmt0("Ret"),
                 LabelS("G")>> \o b \o <<Stmt0("Ret")>> :
        c \in Callers, b \in CalleeBodies}
    \cup {<<Stmt0("Ret")>>, <<Stmt0("Hlt")>>, <<Stmt0("Nop"), Stmt0("Hlt"), Stmt0("Nop")>>}

\* The flags before the jump: (eq, lt) = (F, F), (T, F), (F, T), (F, F)
FlagSetups ==
    {<<>>,
     <<Stmt2("Cmp", RegE(Reg(QWord, 0)), IntE(0))>>,
     <<Stmt2("Cmp", RegE(Reg(QWord, 0)), IntE(1))>>,
     <<Stmt2("Mov", RegE(Reg(QWord, 0)), IntE(5)), Stmt2("Cmp", RegE(Reg(QWord, 0)), IntE(1))>>}

JumpPrograms ==
    {f \o <<Stmt1(op, t), Stmt0("Hlt"), Stmt0("Nop"), LabelS("T"), Stmt0("Hlt")>> :
        f \in FlagSetups, op \in JumpOps, t \in {IntE(200), IdE("T")}}
    \cup {f \o <<Stmt2("Mov", RegE(Reg(QWord, 1)), t), Stmt1(op, RegE(r)), Stmt0("Hlt"),
                 Stmt0("Nop"), LabelS("T"), Stmt0("Hlt")>> :
        f \in FlagSetups, op \in JumpOps, t \in {IntE(-2), IdE("T")},
        r \in {Reg(QWord, 1), Reg(Byte, 1)}}

\* nop; hlt
NopHlt == <<Stmt0("Nop"), Stmt0("Hlt")>>

InitFlow ==
    /\ build \in Builds
    /\ program \in CallPrograms \cup JumpPrograms \cup {NopHlt}
    /\ compiler = NotCompiled
    /\ image = <<>>
    /\ mem_size = GuestMem
    /\ vm = NoVM
    /\ last = NoLast
    /\ preprocessor = NoPreprocessor

NextFlow == Compile \/ Load \/ Step \/ StepHalted

SpecFlow == InitFlow /\ [][NextFlow]_vars

(***************************************************************************)
(* C12: CALL and RET                                                       *)
(***************************************************************************)

\* The last step() call decoded and executed an instruction of ops
Executed(ops) == Stepped /\ last.d.err = "Ok" /\ last.d.opcode \in ops

\* The eight bytes of storage at the usize address a (within the storage)
QWordAt(storage, a) == SubSeq(storage, Small(a) + 1, Small(a) + 8)

\* The target of a jump or call d: the immediate, or the register's value as
\* a usize
Target(v, d) ==
    IF d.f[1].k = "reg"
    THEN Cast(RegAt([v EXCEPT !.regs = set_ip(@, d.ip)], d, 1), QWord)
    ELSE d.f[1].b

\* C12: a CALL that succeeds has pushed, as a qword, the address of the
\* instruction after it and set IP to its target; a RET that succeeds has
\* popped a qword and set IP to it.  So a RET reached with SP where the
\* innermost open CALL left it resumes after that CALL with SP as it was
\* before the CALL, innermost call first.
C12_CallRet ==
    /\ Executed({"CallImm", "CallReg"}) /\ vm.status = "Ok" =>
          /\ sp(vm.regs) = Sub64(sp(last.pre.regs), USize(8))
          /\ QWordAt(vm.mem, sp(vm.regs)) = AfterCall(last.d, ip(last.pre.regs))
          /\ ip(vm.regs) = Target(last.pre, last.d)
    /\ Executed({"Ret"}) /\ vm.status = "Ok" =>
          /\ ip(vm.regs) = QWordAt(last.pre.mem, sp(last.pre.regs))
          /\ sp(vm.regs) = Add64(sp(last.pre.regs), USize(8)).sum
    /\ Executed({"Ret"}) /\ last.cs # <<>> =>
          LET open == last.cs[Len(last.cs)]
          IN  sp(last.pre.regs) = Sub64(open.sp, USize(8)) =>
                  /\ vm.status = "Ok"
                  /\ ip(vm.regs) = open.ret
                  /\ sp(vm.regs) = open.sp

\* The outer of two nested calls has returned: after the inner RET, the outer
\* RET resumed at the HLT after the first CALL (address 9) with the initial SP
C12_Witness ==
    /\ Executed({"Ret"}) /\ Len(last.cs) = 1
    /\ last.pd.opcode = "Ret"
    /\ ip(vm.regs) = USize(9)
    /\ sp(vm.regs) = USize(GuestMem)

(***************************************************************************)
(* C13: HLT                                                                *)
(***************************************************************************)

\* C13: HLT sets halted; every step() call on a halted VM returns Ok and
\* leaves halted true and every register (IP and SP included), both flags
\* and the memory as they were.
C13_HaltedNoOp ==
    /\ Executed({"Hlt"}) => vm.halted /\ vm.status = "Ok"
    /\ last.n > 0 /\ last.pre.halted => vm = last.pre

\* Two step() calls after the HLT, the VM still halted
C13_Witness ==
    /\ last.n > 2 /\ last.pre.halted /\ last.pp.halted
    /\ last.pd.opcode = ""
    /\ vm.halted /\ vm.status = "Ok"

(***************************************************************************)
(* C15: jumps                                                              *)
(***************************************************************************)

Jumps == JumpImmOps \cup JumpRegOps

\* The flag condition of each jump
JumpCondition(op, eq, lt) ==
    \/ op \in {"JmpImm", "JmpReg"}
    \/ op \in {"JeqImm", "JeqReg"} /\ eq
    \/ op \in {"JneImm", "JneReg"} /\ ~eq
    \/ op \in {"JltImm", "JltReg"} /\ lt
    \/ op \in {"JgtImm", "JgtReg"} /\ ~lt
    \/ op \in {"JleImm", "JleReg"} /\ (lt \/ eq)
    \/ op \in {"JgeImm", "JgeReg"} /\ (~lt \/ eq)

\* The first byte after the operand of the jump that began at IP = at
AfterJump(op, at) == Add64(at, USize(IF op \in JumpImmOps THEN 9 ELSE 2)).sum

\* C15: a jump sets IP to its target exactly when its flag condition holds
\* (JMP always; JEQ eq; JNE not eq; JLT lt; JGT not lt; JLE lt or eq; JGE not
\* lt or eq) and otherwise leaves IP at the first byte after its operand;
\* it changes no flag, no other register, not SP and no byte of memory.
C15_Jumps ==
    Executed(Jumps) =>
        LET pre == last.pre
            op == last.d.opcode
            to == IF JumpCondition(op, pre.flags.eq, pre.flags.lt)
                  THEN Target(pre, last.d)
                  ELSE AfterJump(op, ip(pre.regs))
        IN  vm = [pre EXCEPT !.regs.special[IP_REG] = to]

\* JGT taken although the operands compared equal
C15_Witness ==
    /\ Executed({"JgtImm"})
    /\ last.pre.flags.eq /\ ~last.pre.flags.lt
    /\ ip(vm.regs) = USize(200)

(***************************************************************************)
(* SpecAlu: register writes, comparisons and integer arithmetic            *)
(***************************************************************************)

IntViews == {Byte, Word, DWord, QWord}

\* mov <register>, <literal>: a float literal for a float register
MovLit(r, n) ==
    Stmt2("Mov", RegE(r), IF r < IP /\ IsFloatReg(r) THEN FloatE(n) ELSE IntE(n))

\* Slot i and a neighbour hold values with no zero byte before the write
Priors(i) ==
    {<<>>,
     <<MovLit(Reg(QWord, i), -1234567), MovLit(Reg(Float, i), 3), MovLit(Reg(Double, i), 4),
       MovLit(Reg(QWord, (i + 1) % 16), -2), MovLit(Reg(Double, (i + 1) % 16), 2)>>}

WritePrograms ==
    UNION {{p \o <<MovLit(Reg(view, i), 2), Stmt0("Hlt")>> :
                p \in Priors(i), view \in DataSizes} : i \in 0..15}
    \cup {p \o <<MovLit(Reg(view, 3), 305419896), Stmt0("Hlt")>> :
        p \in Priors(3), view \in IntViews}
    \cup {p \o <<Stmt2("Mov", RegE(Reg(view, 3)), RegE(Reg(QWord, 4))), Stmt0("Hlt")>> :
        p \in Priors(3), view \in IntViews}
    \cup {p \o <<MovLit(r, 40), Stmt0("Hlt")>> : p \in Priors(0), r \in {SP, BP, IP}}

\* Operand values: q1 and q2 hold x and y
OperandValues == {0, 1, 2, 255, 256, 65537, 305419896, -1, -1234567}

RightValues == {0, 2, 255, 256, 65537, -1}

Operands2(x, y) == <<MovLit(Reg(QWord, 1), x), MovLit(Reg(QWord, 2), y)>>

CmpPrograms ==
    {Operands2(x, y) \o <<Stmt2("Cmp", RegE(Reg(a, 1)), RegE(Reg(b, 2))), Stmt0("Hlt")>> :
        x \in {1, 256, -1}, y \in {1, 2, -1}, a \in IntViews, b \in IntViews}
    \cup {Operands2(x, 0) \o <<Stmt2("Cmp", RegE(Reg(a, 1)), IntE(y)), Stmt0("Hlt")>> :
        x \in OperandValues, y \in {1, 256, -1}, a \in IntViews}
    \cup {<<MovLit(Reg(a, 1), x), MovLit(Reg(b, 2), y),
            Stmt2("Cmp", RegE(Reg(a, 1)), RegE(Reg(b, 2))), Stmt0("Hlt")>> :
        x \in {2, 3}, y \in {2, 3, 4}, a \in {Float, Double}, b \in {DWord, Float, Double}}
    \cup {<<MovLit(Reg(a, 1), x), Stmt2("Cmp", RegE(Reg(a, 1)), FloatE(y)), Stmt0("Hlt")>> :
        x \in {2, 3}, y \in {2, 3, 4}, a \in {Float, Double}}

ArithPrograms ==
    {Operands2(x, y) \o <<Stmt(op, RegE(Reg(d, 0)), RegE(Reg(a, 1)), RegE(Reg(b, 2))),
                          Stmt0("Hlt")>> :
        x \in OperandValues, y \in RightValues, op \in ArithmeticOps,
        d \in IntViews, a \in {Byte, QWord}, b \in {Word, QWord}}
    \cup {Operands2(x, 0) \o <<Stmt(op, RegE(Reg(d, 0)), RegE(Reg(a, 1)), IntE(y)),
                               Stmt0("Hlt")>> :
        x \in OperandValues, y \in RightValues, op \in ArithmeticOps,
        d \in IntViews, a \in {Byte, QWord}}

InitAlu ==
    /\ build \in Builds
    /\ program \in WritePrograms \cup CmpPrograms \cup ArithPrograms
    /\ compiler = NotCompiled
    /\ image = <<>>
    /\ mem_size = 2 * GuestMem
    /\ vm = NoVM
    /\ last = NoLast
    /\ preprocessor = NoPreprocessor

NextAlu == Compile \/ Load \/ Step

SpecAlu == InitAlu /\ [][NextAlu]_vars

(***************************************************************************)
(* C14: CMP                                                                *)
(***************************************************************************)

\* The operands of the CMP d executed from the VM v
CmpLeft(v, d) == RegAt(v, d, 1)
CmpRight(v, d) ==
    IF d.opcode = "CmpRegReg" THEN RegAt(v, d, 2)
    ELSE Imm(DataSizeOf(d.f[1].v), d.f[2].b)

\* Two values of one width: equal, and less than (an unsigned integer is less
\* when it is smaller at the highest byte where the two differ)
SameValue(a, b) ==
    IF a.size \in IntSizes THEN a.bytes = b.bytes ELSE Halves(a) = Halves(b)
LessValue(a, b) ==
    IF a.size \in IntSizes
    THEN \E i \in 1..Len(a.bytes) :
            /\ a.bytes[i] < b.bytes[i]
            /\ \A j \in (i + 1)..Len(a.bytes) : a.bytes[j] = b.bytes[j]
    ELSE Halves(a) < Halves(b)

\* C14: after CMP a, b (register with register or immediate), eq is a = b
\* and lt is a < b, a and b being compared by width tag first (Byte < Word <
\* DWord < QWord < Float < Double) and by value second; two registers of
\* different widths are never equal and their lt is decided by the tags.
C14_Cmp ==
    Executed({"CmpRegReg", "CmpRegImm"}) =>
        LET a == CmpLeft(last.pre, last.d)
            b == CmpRight(last.pre, last.d)
        IN  /\ vm.status = "Ok"
            /\ vm.flags.eq = (a.size = b.size /\ SameValue(a, b))
            /\ vm.flags.lt = (a.size < b.size \/ (a.size = b.size /\ LessValue(a, b)))
            /\ a.size # b.size => ~vm.flags.eq /\ vm.flags.lt = (a.size < b.size)

\* b1 = 255 compared with q2 = 1: lt is set, by the tags
C14_Witness ==
    /\ Executed({"CmpRegReg"})
    /\ CmpLeft(last.pre, last.d) = Imm(Byte, <<255>>)
    /\ CmpRight(last.pre, last.d) = Imm(QWord, LE(1, 8))
    /\ vm.flags.lt /\ ~vm.flags.eq

(***************************************************************************)
(* C16, C17: register writes                                               *)
(***************************************************************************)

Moves == {"MovRegImm", "MovRegReg"}

\* The value the MOV d writes, at the width of its destination
Moved(v, d) ==
    IF d.opcode = "MovRegImm" THEN d.f[2].b
    ELSE Cast(RegAt(v, d, 2), DataSizeOf(d.f[1].v))

\* The last step was a MOV into a view of a general-purpose register
GprWrite ==
    /\ Executed(Moves) /\ vm.status = "Ok"
    /\ last.d.f[1].v < IP /\ DataSizeOf(last.d.f[1].v) \in IntViews

\* C16: a write of x through Bi keeps bits 8..64 of Qi and sets bits 0..8 to
\* x; through Wi it keeps bits 16..64 and sets bits 0..16; through Di it makes
\* Qi the zero-extension of x; through Qi it makes Qi equal to x - for every
\* general-purpose index i and whatever the slot held.
C16_GprViews ==
    GprWrite =>
        LET dest == last.d.f[1].v
            w == size_in_bytes(DataSizeOf(dest))
            x == Moved(last.pre, last.d)
            old == get(last.pre.regs, Reg(QWord, dest \div 6)).bytes
            new == get(vm.regs, Reg(QWord, dest \div 6)).bytes
        IN  /\ \A k \in 1..w : new[k] = x[k]
            /\ \A k \in (w + 1)..8 :
                  new[k] = IF DataSizeOf(dest) \in {Byte, Word} THEN old[k] ELSE 0

\* 0x5678 written through w3 while q3 held -1234567
C16_Witness ==
    /\ GprWrite
    /\ last.d.f[1].v = Reg(Word, 3)
    /\ get(last.pre.regs, Reg(QWord, 3)).bytes = LE(-1234567, 8)
    /\ get(vm.regs, Reg(QWord, 3)).bytes = <<120, 86, 237, 255, 255, 255, 255, 255>>

\* The registers that share the physical slot of r: the four views of its
\* general-purpose register, or r alone
SameSlot(r) ==
    IF r < IP /\ DataSizeOf(r) \in IntViews
    THEN {Reg(view, r \div 6) : view \in IntViews}
    ELSE {r}

\* C17: a write to a register changes only that register's physical slot: a
\* write to a view of general-purpose register i leaves every other
\* general-purpose register, every float and double register and IP, SP and
\* BP as they were; a write to FFi leaves every DDj (DDi too) and every other
\* FFk as they were, and a write to DDi every FFj and every other DDk.
C17_RegisterFrame ==
    Executed(Moves) /\ vm.status = "Ok" =>
        LET dest == last.d.f[1].v
            before == set_ip(last.pre.regs, last.d.ip)
        IN  \A r \in Registers \ SameSlot(dest) : get(vm.regs, r) = get(before, r)

\* 1.0 written to ff3 while dd3 holds 2.0 and ff4, dd4 and q3 hold values
C17_Witness ==
    /\ Executed(Moves) /\ vm.status = "Ok"
    /\ last.d.f[1].v = Reg(Float, 3)
    /\ get(vm.regs, Reg(Float, 3)).bytes = F32Bits(2)
    /\ get(vm.regs, Reg(Double, 3)).bytes = F64Bits(4)
    /\ get(vm.regs, Reg(Double, 4)).bytes = F64Bits(2)
    /\ get(vm.regs, Reg(QWord, 3)).bytes = LE(-1234567, 8)

(***************************************************************************)
(* C18, C19: integer arithmetic                                            *)
(***************************************************************************)

\* The n low hexadecimal digits of an unsigned value, lowest first: the value
\* converted to 4n bits (truncated when wider, zero-extended when narrower)
ToHex(b, n) ==
    [j \in 1..n |->
        IF (j - 1) \div 2 < Len(b)
        THEN (b[(j - 1) \div 2 + 1] \div (IF j % 2 = 1 THEN 1 ELSE 16)) % 16
        ELSE 0]

\* x + y + c modulo 16^Len(x), from digit j
RECURSIVE AddHex(_, _, _, _)
AddHex(x, y, j, c) ==
    IF j > Len(x) THEN <<>>
    ELSE LET t == x[j] + y[j] + c
         IN  <<t % 16>> \o AddHex(x, y, j + 1, t \div 16)

\* x - y modulo 16^Len(x): x + (16^Len(x) - 1 - y) + 1
SubHex(x, y) == AddHex(x, [j \in 1..Len(y) |-> 15 - y[j]], 1, 1)

\* x * m * 16^(k-1) modulo 16^Len(x) for one digit m, from digit j
RECURSIVE ScaleHex(_, _, _, _, _)
ScaleHex(x, m, k, j, c) ==
    IF j > Len(x) THEN <<>>
    ELSE IF j < k THEN <<0>> \o ScaleHex(x, m, k, j + 1, 0)
    ELSE LET t == x[j - k + 1] * m + c
         IN  <<t % 16>> \o ScaleHex(x, m, k, j + 1, t \div 16)

\* x * y modulo 16^Len(x): the sum over the digits k of y, from digit k
RECURSIVE MulHex(_, _, _)
MulHex(x, y, k) ==
    IF k > Len(y) THEN [j \in 1..Len(x) |-> 0]
    ELSE AddHex(ScaleHex(x, y[k], k, 1, 0), MulHex(x, y, k + 1), 1, 0)

AddOps == {"AddRegRegReg", "AddRegRegImm"}
SubOps == {"SubRegRegReg", "SubRegRegImm"}
MulOps == {"MulRegRegReg", "MulRegRegImm"}
DivOps == {"DivRegRegReg", "DivRegRegImm"}

\* The operands of the arithmetic instruction d executed from the VM v
ArithLeft(v, d) == RegAt(v, d, 2)
ArithRight(v, d) ==
    IF d.f[3].k = "reg" THEN RegAt(v, d, 3) ELSE Imm(DataSizeOf(d.f[1].v), d.f[3].b)

\* The last step was arithmetic of ops on integer registers
IntArith(ops) ==
    /\ Executed(ops)
    /\ DataSizeOf(last.d.f[1].v) \in IntSizes
    /\ ArithLeft(last.pre, last.d).size \in IntSizes
    /\ ArithRight(last.pre, last.d).size \in IntSizes

\* C18: ADD, SUB and MUL with an integer destination of w bits write
\* (a op b) mod 2^w through the destination view, a and b being the operands
\* converted to w bits (truncated if wider, zero-extended if narrower), and
\* never fail on overflow.
C18_WrappingArithmetic ==
    IntArith(AddOps \cup SubOps \cup MulOps) =>
        LET dest == last.d.f[1].v
            n == 2 * size_in_bytes(DataSizeOf(dest))
            a == ToHex(ArithLeft(last.pre, last.d).bytes, n)
            b == ToHex(ArithRight(last.pre, last.d).bytes, n)
            op == last.d.opcode
            expected == IF op \in AddOps THEN AddHex(a, b, 1, 0)
                        ELSE IF op \in SubOps THEN SubHex(a, b)
                        ELSE MulHex(a, b, 1)
        IN  /\ vm.status = "Ok"
            /\ ToHex(get(vm.regs, dest).bytes, n) = expected

\* q1 = 0xFFFFFFFFFFED2979 times q2 = 65537 into d0: the low 32 bits of the
\* product, 0x29662979
C18_Witness ==
    /\ IntArith({"MulRegRegReg"})
    /\ last.d.f[1].v = Reg(DWord, 0)
    /\ ArithLeft(last.pre, last.d) = Imm(QWord, LE(-1234567, 8))
    /\ ArithRight(last.pre, last.d) = Imm(QWord, LE(65537, 8))
    /\ get(vm.regs, Reg(QWord, 0)).bytes = <<121, 41, 102, 41, 0, 0, 0, 0>>

\* The integer DIV d, executed from the VM v, divides by zero: its right
\* operand converted to the width of the destination is 0
DividesByZero(v, d) ==
    /\ d.err = "Ok" /\ d.opcode \in DivOps
    /\ DataSizeOf(d.f[1].v) \in IntSizes
    /\ ArithLeft(v, d).size \in IntSizes /\ ArithRight(v, d).size \in IntSizes
    /\ \A j \in 1..(2 * size_in_bytes(DataSizeOf(d.f[1].v))) :
          ToHex(ArithRight(v, d).bytes, 2 * size_in_bytes(DataSizeOf(d.f[1].v)))[j] = 0

SysAddrs == {0, 32, 40, 47, 48, 49, -1, -8}
SysCounts == {0, 1, 8, 16, 48, -1, -40}

\* mov q15, index; mov q1, addr; mov q2, count; syscall; hlt (fd 0)
SysPrograms ==
    {<<MovLit(Reg(QWord, 15), index), MovLit(Reg(QWord, 1), a), MovLit(Reg(QWord, 2), c),
       Stmt0("Syscall"), Stmt0("Hlt")>> :
        index \in {2, 3, 9}, a \in SysAddrs, c \in SysCounts}

InitSys ==
    /\ build \in Builds
    /\ program \in SysPrograms
    /\ compiler = NotCompiled
    /\ image = <<>>
    /\ mem_size = GuestMem
    /\ vm = NoVM
    /\ last = NoLast
    /\ preprocessor = NoPreprocessor

NextSys == Compile \/ Load \/ Step

SpecSys == InitSys /\ [][NextSys]_vars

(***************************************************************************)
(* C20: the buffers of read and write                                      *)
(***************************************************************************)

\* The last step() call executed the read or the write syscall
ReadWriteStep ==
    /\ Executed({"Syscall"})
    /\ get(last.pre.regs, Reg(QWord, 15)).bytes \in {USize(2), USize(3)}

\* C20: read and write hand the guest buffer [Q1, Q1 + Q2) to the host
\* exactly when Q1 + Q2 <= memory.len(); otherwise they fail with the bounds
\* error, no call reaches the host, and memory and registers are unchanged.
C20_SyscallBuffer ==
    ReadWriteStep =>
        LET Q1 == get(last.pre.regs, Reg(QWord, 1)).bytes
            Q2 == get(last.pre.regs, Reg(QWord, 2)).bytes
            s == Add64(Q1, Q2)
            inside == ~s.overflow /\ ~GtN(s.sum, Len(last.pre.mem))
        IN  IF inside
            THEN /\ last.io.call =
                        (IF get(last.pre.regs, Reg(QWord, 15)).bytes = USize(2)
                         THEN "read" ELSE "write")
                 /\ last.io.addr = Small(Q1)
                 /\ last.io.count = Small(Q2)
            ELSE /\ last.io = NoIO
                 /\ vm.status = "InstructionPointerOutOfBounds"
                 /\ vm.mem = last.pre.mem
                 /\ vm.regs = set_ip(last.pre.regs, last.d.ip)


(***************************************************************************)
(* C21, C22: labels                                                        *)
(***************************************************************************)

\* The positions of the program's label definitions, and the names defined
LabelDefs == {i \in 1..Len(program) : program[i].op = "Label"}
Defined == {program[i].a.name : i \in LabelDefs}

\* C21: compile() rejects every program that defines the same label name
\* more than once; no image is produced from duplicate definitions.
C21_DuplicateLabelsRejected ==
    (\E i, j \in LabelDefs : i # j /\ program[i].a.name = program[j].a.name)
        => compiler.err # "Ok" /\ image = <<>>

\* The labels that the fixup table and `.entry` refer to once the statement
\* loop is over
Referenced ==
    {f.label : f \in compiler.c.fixups \cup compiler.resolved}
    \cup (IF compiler.c.entry.kind = "Fixup" THEN {compiler.c.entry.label} ELSE {})

\* C22: when the statement loop has succeeded and a fixup or `.entry` names a
\* label defined nowhere in the unit, compile() fails and returns no image,
\* with UndefinedLabel when every fixup has an integer size; when every
\* referenced label is defined, before or after its use, there is no error.
C22_UndefinedLabel ==
    compiler.err \notin {"None", "External"} /\ compiler.c.err = "Ok" =>
        LET sized == \A f \in compiler.c.fixups \cup compiler.resolved : f.size \in IntSizes
        IN  /\ Referenced \ Defined # {} =>
                  /\ compiler.err # "Ok"
                  /\ image = <<>>
                  /\ sized => compiler.err = "UndefinedLabel"
            /\ Referenced \subseteq Defined /\ sized => compiler.err = "Ok"

\* call L in the data section with no L in the unit
C22_Witness ==
    /\ program = <<SectionS("Data"), Stmt1("Call", IdE("L"))>>
    /\ compiler.err = "UndefinedLabel"
    /\ image = <<>>


(***************************************************************************)
(* C24: compile() is deterministic                                         *)
(***************************************************************************)

\* The bytes of its section that a fixup's write covers
SiteRange(f) == (f.offset + 1)..(f.offset + size_in_bytes(f.size))

\* C24: every compile of the same statement stream succeeds or fails alike
\* and returns the same image, whatever the order in which the fixup table is
\* drained; the fixup sites of a section are pairwise disjoint.
C24_CompileDeterministic ==
    compiler.err \notin {"None", "External"} =>
        /\ \A r \in CompileResults(program) :
              /\ (r.err = "Ok") = (compiler.err = "Ok")
              /\ r.out = image
        /\ \A f, g \in compiler.resolved :
              f # g /\ f.section = g.section => SiteRange(f) \cap SiteRange(g) = {}

\* Three byte-sized references in a row to a label behind them: six drain orders
C24_Witness ==
    /\ program = <<Stmt2("Mov", RegE(Reg(Byte, 0)), IdE("L")),
                   Stmt2("Mov", RegE(Reg(Byte, 0)), IdE("L")),
                   Stmt2("Mov", RegE(Reg(Byte, 0)), IdE("L")),
                   LabelS("L")>>
    /\ Cardinality(Drains(compiler.resolved)) = 6
    /\ image = Zeros(8) \o <<OpcodeByte("MovRegImm"), Reg(Byte, 0), 9,
                             OpcodeByte("MovRegImm"), Reg(Byte, 0), 9,
                             OpcodeByte("MovRegImm"), Reg(Byte, 0), 9>>


(***************************************************************************)
(* SpecBitwise: AND, OR, XOR, SHL, SHR over every kind of register         *)
(***************************************************************************)

BitwiseRight == {RegE(r) : r \in RegSample} \cup {IntE(42), FloatE(3)}

\* nop, then one bitwise instruction
BitwisePrograms ==
    {<<Stmt0("Nop"), Stmt(op, RegE(d), RegE(l), x)>> :
        op \in BitwiseOps, d \in RegSample, l \in RegSample, x \in BitwiseRight}

InitBitwise ==
    /\ build = "release"
    /\ program \in BitwisePrograms
    /\ compiler = NotCompiled
    /\ image = <<>>
    /\ mem_size = 0
    /\ vm = NoVM
    /\ last = NoLast
    /\ preprocessor = NoPreprocessor

NextBitwise == Compile

SpecBitwise == InitBitwise /\ [][NextBitwise]_vars

(***************************************************************************)
(* C23: bitwise instructions on floating-point registers                   *)
(***************************************************************************)

\* The operand is one of the registers FF0..FF15, DD0..DD15
FloatOperand(x) == x.k = "Register" /\ x.r \in {Reg(v, i) : v \in {Float, Double}, i \in 0..15}

\* C23: AND, OR, XOR, SHL or SHR whose destination or a source register is a
\* float or double register fails to compile with InvalidOperands, with a
\* register and with an immediate on the right; no image is returned.
C23_BitwiseOnFloats ==
    compiler.err # "None" =>
        \A i \in 1..Len(program) :
            LET s == program[i]
            IN  s.op \in BitwiseOps
                /\ (FloatOperand(s.a) \/ FloatOperand(s.b) \/ FloatOperand(s.c))
                    => compiler.err = "InvalidOperands" /\ image = <<>>

\* xor q3, ff4, 42: a float source with an immediate on the right
C23_Witness ==
    /\ program = <<Stmt0("Nop"), Stmt("Xor", RegE(Reg(QWord, 3)), RegE(Reg(Float, 4)), IntE(42))>>
    /\ compiler.err = "InvalidOperands"
    /\ image = <<>>


(***************************************************************************)
(* C25: nop; hlt                                                           *)
(***************************************************************************)

\* nop; hlt compiles to eight zero bytes, opcode(Nop), opcode(Hlt); the run
\* has no error, is halted from its second step on, and then IP = at
NopHltRuns(at) ==
    program = NopHlt =>
        /\ compiler.err # "None" =>
              /\ compiler.err = "Ok"
              /\ image = <<0, 0, 0, 0, 0, 0, 0, 0, OpcodeByte("Nop"), OpcodeByte("Hlt")>>
        /\ vm.status \in {"None", "Ok"}
        /\ vm.halted <=> last.n >= 2
        /\ vm.halted => ip(vm.regs) = USize(at)

\* C25 (as stated): nop; hlt compiles to an all-zero 8-byte header followed
\* by opcode(Nop), opcode(Hlt), and running it halts with IP = 10.
C25_NopHltAsStated == NopHltRuns(10)

\* C25 (amended): nop; hlt compiles to an all-zero 8-byte header followed by
\* opcode(Nop), opcode(Hlt), and running it halts with IP = 2: the header is
\* not loaded, and IP counts from the first byte of the body.
C25_NopHlt == NopHltRuns(2)

\* nop; hlt has halted
C25_Witness ==
    /\ program = NopHlt
    /\ last.n = 2
    /\ vm.halted
    /\ ip(vm.regs) = USize(2)
    /\ vm.mem[1] = OpcodeByte("Nop") /\ vm.mem[2] = OpcodeByte("Hlt")


(***************************************************************************)
(* Actions of the preprocessor: process() of the innermost Preprocessor    *)
(***************************************************************************)

Top == preprocessor.stack[Len(preprocessor.stack)]

InFirstLoop == preprocessor.status = "Running" /\ Top.i <= Len(Top.program)

InConditionals ==
    preprocessor.status = "Running" /\ Top.i > Len(Top.program)
        /\ Top.ci <= Len(Top.processed)

AtEnd ==
    preprocessor.status = "Running" /\ Top.i > Len(Top.program)
        /\ Top.ci > Len(Top.processed)

\* The statement is a well-formed #include
IsInclude(s) == s.op = "Include" /\ s.a.k = "StringLiteral"

\* The preprocessor after a step of the innermost process(): r is the error
\* or the frames that replace the innermost one
After(r, frames) ==
    IF r.err # "Ok" THEN [preprocessor EXCEPT !.status = r.err]
    ELSE [preprocessor EXCEPT
            !.stack = SubSeq(@, 1, Len(@) - 1) \o frames]

\* One turn of the first loop of process() on a statement other than #include
ProcessStatement ==
    /\ InFirstLoop
    /\ ~IsInclude(Top.program[Top.i])
    /\ LET r == FirstLoop(Top, Top.program[Top.i])
       IN  preprocessor' = After(r, <<r.frame>>)
    /\ UNCHANGED <<build, program, compiler, image, mem_size, vm, last>>

MaxDepth == 6

\* The first loop at an #include: process_include up to the call of the
\* sub-preprocessor's process()
ProcessInclude ==
    /\ InFirstLoop
    /\ IsInclude(Top.program[Top.i])
    /\ Len(preprocessor.stack) < MaxDepth
    /\ LET r == process_include(Top, Top.program[Top.i].a.bytes, preprocessor.files)
       IN  preprocessor' = After(r, r.stack)
    /\ UNCHANGED <<build, program, compiler, image, mem_size, vm, last>>

\* One turn of the loop of process_conditionals
ProcessConditional ==
    /\ InConditionals
    /\ LET r == ConditionalStep(Top, Top.processed[Top.ci])
       IN  preprocessor' = After(r, <<r.frame>>)
    /\ UNCHANGED <<build, program, compiler, image, mem_size, vm, last>>

\* The sub-preprocessor's process() returns to process_include
ProcessReturn ==
    /\ AtEnd
    /\ Len(preprocessor.stack) > 1
    /\ LET r == Finished(build, Top)
           self == preprocessor.stack[Len(preprocessor.stack) - 1]
       IN  preprocessor' =
              IF r.err # "Ok"
              THEN [preprocessor EXCEPT !.status = r.err, !.message = r.message]
              ELSE [preprocessor EXCEPT
                      !.stack = SubSeq(@, 1, Len(@) - 2)
                                    \o <<MergeInclude(self, Top, r.statements)>>]
    /\ UNCHANGED <<build, program, compiler, image, mem_size, vm, last>>

\* The root unit's process() returns
ProcessFinish ==
    /\ AtEnd
    /\ Len(preprocessor.stack) = 1
    /\ LET r == Finished(build, Top)
       IN  preprocessor' = [preprocessor EXCEPT !.status = r.err, !.out = r.statements,
                                                !.message = r.message]
    /\ UNCHANGED <<build, program, compiler, image, mem_size, vm, last>>

(***************************************************************************)
(* SpecCond: units of conditionals, with A defined or not                  *)
(***************************************************************************)

MaxCond == 4

\* The path of the root unit
RootPath == <<111>>

CondStatements ==
    {IfDefS("A"), IfNDefS("A"), ElseS, EndIfS, Stmt0("Nop"), Stmt0("Hlt")}

CondPrograms ==
    {head \o body : head \in {<<>>, <<DefineS("A", IntE(1))>>},
                    body \in SeqsOf(CondStatements, MaxCond)}

MaxNest == 3

\* Conditionals nested n deep, each with both branches, around statements
RECURSIVE Nests(_)
Nests(n) ==
    IF n = 0 THEN {<<Stmt0("Ret")>>}
    ELSE {<<open, Stmt0("Nop")>> \o inner \o <<ElseS, Stmt0("Hlt")>> \o inner \o <<EndIfS>> :
             open \in {IfDefS("A"), IfNDefS("A")}, inner \in Nests(n - 1)}

NestedPrograms ==
    {head \o body : head \in {<<>>, <<DefineS("A", IntE(1))>>}, body \in Nests(MaxNest)}

InitCond ==
    /\ build = "release"
    /\ program \in CondPrograms \cup NestedPrograms
    /\ compiler = NotCompiled
    /\ image = <<>>
    /\ mem_size = 0
    /\ vm = NoVM
    /\ last = NoLast
    /\ preprocessor = PreprocessorNew(program, RootPath, <<>>)

NextCond == ProcessStatement \/ ProcessConditional \/ ProcessFinish

SpecCond == InitCond /\ [][NextCond]_vars

(***************************************************************************)
(* SpecInclude: four files that include each other                         *)
(***************************************************************************)

MaxIncludes == 2

\* The files a, b, d and the root unit o
Paths == {RootPath, <<97>>, <<98>>, <<100>>}

\* The statement that tells a file's own text from the others'
OwnStatement(path) ==
    CASE path = RootPath -> Stmt0("Syscall")
      [] path = <<97>> -> Stmt0("Nop")
      [] path = <<98>> -> Stmt0("Ret")
      [] OTHER -> Stmt0("Hlt")

\* A file's text: at most n #include lines, then its own statement
Texts(path, n) ==
    {includes \o <<OwnStatement(path)>> :
        includes \in SeqsOf({IncludeS(p) : p \in Paths}, n)}

\* The root has up to MaxIncludes #include lines, the other files up to one
FileSystems ==
    {(RootPath :> o) @@ (<<97>> :> a) @@ (<<98>> :> b) @@ (<<100>> :> d) :
        o \in Texts(RootPath, MaxIncludes), a \in Texts(<<97>>, 1),
        b \in Texts(<<98>>, 1), d \in Texts(<<100>>, 1)}

InitInclude ==
    /\ build = "release"
    /\ \E fs \in FileSystems :
          /\ program = fs[RootPath]
          /\ preprocessor = PreprocessorNew(fs[RootPath], RootPath, fs)
    /\ compiler = NotCompiled
    /\ image = <<>>
    /\ mem_size = 0
    /\ vm = NoVM
    /\ last = NoLast

NextInclude ==
    ProcessStatement \/ ProcessInclude \/ ProcessConditional \/ ProcessReturn \/ ProcessFinish

SpecInclude == InitInclude /\ [][NextInclude]_vars

\* process() is not suspended for ever
SpecIncludeLive == SpecInclude /\ WF_vars(NextInclude)


(***************************************************************************)
(* C26: which statements the conditionals let through                      *)
(***************************************************************************)

Directives == {"IfDef", "IfNDef", "Else", "EndIf"}

\* The conditionals opened less the conditionals closed in S[j + 1 .. m]
Balance(S, j, m) ==
    Cardinality({n \in (j + 1)..m : S[n].op \in {"IfDef", "IfNDef"}})
        - Cardinality({n \in (j + 1)..m : S[n].op = "EndIf"})

\* The conditional opened at j is on the stack at statement k
OpenAt(S, j, k) ==
    /\ j < k
    /\ S[j].op \in {"IfDef", "IfNDef"}
    /\ \A m \in (j + 1)..(k - 1) : Balance(S, j, m) >= 0

\* Its #else lies before statement k
PastElse(S, j, k) ==
    \E m \in (j + 1)..(k - 1) : S[m].op = "Else" /\ Balance(S, j, m) = 0

\* The names with a #define in the unit, and the predefined ones
DefinedNames ==
    {program[n].a.name : n \in {m \in 1..Len(program) : program[m].op = "Define"}}
        \cup DOMAIN DefaultDefinitions

\* condition_result of the conditional at j
ConditionResult(S, j) == (S[j].op = "IfDef") = (S[j].a.name \in DefinedNames)

\* Every frame on the stack at statement k admits it
Admitted(S, k) ==
    \A j \in 1..(k - 1) :
        OpenAt(S, j, k) => (ConditionResult(S, j) # PastElse(S, j, k))

\* The admitted statements of S[k .. n] that are not directives, in order
RECURSIVE Kept(_, _, _)
Kept(S, k, n) ==
    IF k > n THEN <<>>
    ELSE (IF S[k].op \notin Directives /\ Admitted(S, k) THEN <<S[k]>> ELSE <<>>)
            \o Kept(S, k + 1, n)

\* C26: conditional processing emits a statement that is not a directive
\* exactly when every frame on the stack admits it there (condition_result
\* before the frame's #else, its negation after), at every nesting depth,
\* and the emitted statements keep their order.
C26_ConditionalEmission ==
    preprocessor.status # "None" =>
        LET unit == preprocessor.stack[1]
        IN  /\ unit.result = Kept(unit.processed, 1, unit.ci - 1)
            /\ preprocessor.status = "Ok" =>
                  preprocessor.out = Kept(unit.processed, 1, Len(unit.processed))

\* Three conditionals deep with A defined: #ifdef, #ifndef ... #else, #ifdef
C26_Witness ==
    /\ preprocessor.status = "Ok"
    /\ Len(program) > 6
    /\ SubSeq(program, 1, 6) =
          <<DefineS("A", IntE(1)), IfDefS("A"), Stmt0("Nop"), IfNDefS("A"), Stmt0("Nop"),
            IfDefS("A")>>
    /\ preprocessor.out = <<Stmt0("Nop"), Stmt0("Hlt"), Stmt0("Nop"), Stmt0("Ret")>>


(***************************************************************************)
(* C27: conditionals left open at the end of the input                     *)
(***************************************************************************)

\* The conditionals of S that are open at its end
Unclosed(S) == {j \in 1..Len(S) : OpenAt(S, j, Len(S) + 1)}

\* C27: when the input ends with conditionals left open, process() fails
\* with UnmatchedIfdef or UnmatchedIfndef after the kind of the bottom-most
\* (first opened) one of them.
C27_UnmatchedFromBottom ==
    LET unit == preprocessor.stack[1]
        S == unit.processed
        bottom == CHOOSE j \in Unclosed(S) : \A n \in Unclosed(S) : j <= n
    IN  preprocessor.status \notin {"None", "Running"}
        /\ unit.ci > Len(S) /\ Unclosed(S) # {}
            => preprocessor.status =
                  (IF S[bottom].op = "IfDef" THEN "UnmatchedIfdef" ELSE "UnmatchedIfndef")


(***************************************************************************)
(* C28: #else and #endif                                                   *)
(***************************************************************************)

\* The statement the loop of process_conditionals is at
Current == Top.processed[Top.ci]

\* C28: #else with an empty stack or for a frame that has had its #else
\* fails with UnmatchedElse, #endif with an empty stack fails with
\* UnmatchedEndif; otherwise #else only marks the top frame, #endif only pops
\* it, and the frames below and the statements emitted so far stay the same.
C28_ElseEndif ==
    [][InConditionals /\ Current.op \in {"Else", "EndIf"} =>
          LET stack == Top.stack
              depth == Len(stack)
              failed == preprocessor'.status # "Running"
          IN  IF Current.op = "Else" /\ (depth = 0 \/ stack[depth].seen_else)
              THEN preprocessor'.status = "UnmatchedElse"
              ELSE IF Current.op = "EndIf" /\ depth = 0
              THEN preprocessor'.status = "UnmatchedEndif"
              ELSE /\ ~failed
                   /\ Top'.result = Top.result
                   /\ Top'.stack =
                         IF Current.op = "EndIf" THEN SubSeq(stack, 1, depth - 1)
                         ELSE SubSeq(stack, 1, depth - 1)
                                  \o <<[condition_result |-> stack[depth].condition_result,
                                        seen_else |-> TRUE,
                                        conditional_type |-> stack[depth].conditional_type]>>
      ]_vars

\* The second #else of the inner of two conditionals
C28_Witness ==
    /\ program = <<IfDefS("A"), IfNDefS("A"), ElseS, ElseS>>
    /\ preprocessor.status = "UnmatchedElse"
    /\ Top.ci = 4
    /\ Len(Top.stack) = 2 /\ Top.stack[2].seen_else /\ ~Top.stack[1].seen_else


(***************************************************************************)
(* C29, C30: circular includes                                             *)
(***************************************************************************)

\* The files that the text of p includes
Includes(p) ==
    LET text == preprocessor.files[p]
    IN  {text[n].a.bytes : n \in {m \in 1..Len(text) : text[m].op = "Include"}}

\* S and everything included from it, directly or not
RECURSIVE IncludeClosure(_)
IncludeClosure(S) ==
    LET T == S \cup UNION {Includes(p) : p \in S}
    IN  IF T = S THEN S ELSE IncludeClosure(T)

IncludedFrom(p) == IncludeClosure(Includes(p))

\* The #include graph has a cycle that the root unit reaches
HasCycle ==
    /\ preprocessor.status # "None"
    /\ \E p \in {RootPath} \cup IncludedFrom(RootPath) : p \in IncludedFrom(p)

\* C29: when the #include graph of the files has a cycle reachable from the
\* processed unit (a file that includes itself and a cycle through the root
\* included), process() ends and fails with CircularInclude; the includes
\* are never nested deeper than there are files.
C29_CircularIncludeDetected ==
    /\ HasCycle ~> preprocessor.status = "CircularInclude"
    /\ [](Len(preprocessor.stack) <= Cardinality(DOMAIN preprocessor.files) + 1)

\* The root o includes a, a includes o, and the o inside includes a again
C29_Witness ==
    /\ preprocessor.status = "CircularInclude"
    /\ [n \in 1..Len(preprocessor.stack) |-> preprocessor.stack[n].input]
          = <<RootPath, <<97>>, RootPath>>
    /\ Top.program[Top.i] = IncludeS(<<97>>)

\* The files whose expansion is in progress: the root unit and the files of
\* the sub-preprocessors on the stack
Chain == {preprocessor.stack[n].input : n \in 1..Len(preprocessor.stack)}

\* C30: CircularInclude is raised only for a file that is on the current
\* include chain; a file whose expansion is over (included twice in
\* sequence, or met again in a diamond) does not raise it.
C30_CycleOnlyOnChain ==
    preprocessor.status = "CircularInclude" => Top.program[Top.i].a.bytes \in Chain

(***************************************************************************)
(* SpecFold: a unit of one statement whose operand is a BinaryOp of two    *)
(* integer literals                                                        *)
(***************************************************************************)

FoldSample == {I64(0), I64(1), I64(-1), I64(3), I64(-7), I64(1000), I64Max, I64Min}

FoldOperand(l, op, r) == BinE(IntE(l), op, IntE(r))

InitFold ==
    /\ build \in Builds
    /\ \E l \in FoldSample, r \in FoldSample, op \in BinaryOperators :
          program = <<Stmt2("Mov", RegE(Reg(QWord, 0)), FoldOperand(l, op, r))>>
    /\ compiler = NotCompiled
    /\ image = <<>>
    /\ mem_size = 0
    /\ vm = NoVM
    /\ last = NoLast
    /\ preprocessor = PreprocessorNew(program, RootPath, <<>>)

NextFold == ProcessStatement \/ ProcessConditional \/ ProcessFinish

SpecFold == InitFold /\ [][NextFold]_vars

\* Wrapping two's-complement arithmetic of i64: wrapping_add, wrapping_sub,
\* wrapping_mul, wrapping_div and the bitwise operators
WrappingI64(op, l, r) ==
    CASE op = "Add" -> Add64(l, r).sum
      [] op = "Sub" -> Sub64(l, r)
      [] op = "Mul" -> MulBytes(l, r, 1, 0)
      [] op = "Div" -> IF l = I64Min /\ r = I64(-1) THEN I64Min ELSE DivI64(l, r).v
      [] OTHER -> [i \in 1..8 |-> BitOp(op, l[i], r[i], 8)]

\* C34: folding BinaryOp(l, op, r) over two integer literals gives the
\* wrapping two's-complement result for every pair l, r (i64::MIN / -1
\* included), and a division by 0 ends the preprocessor with a failure
\* instead of a folded value.
C34_FoldWraps ==
    preprocessor.status \notin {"None", "Running"} =>
        LET e == program[1].b
        IN  IF e.op = "Div" /\ e.rhs.v = Zeros(8)
            THEN preprocessor.status # "Ok"
            ELSE /\ preprocessor.status = "Ok"
                 /\ preprocessor.out[1].b = IntE(WrappingI64(e.op, e.lhs.v, e.rhs.v))

(***************************************************************************)
(* SpecRead: bytecode files that end inside an instruction, in a memory    *)
(* that ends with the file or one byte later                               *)
(***************************************************************************)

ReadEncodings ==
    {<<OpcodeByte("Nop")>>,
     <<OpcodeByte("MovRegReg"), Reg(QWord, 0), Reg(QWord, 1)>>,
     <<OpcodeByte("MovRegImm"), Reg(Byte, 0), 1>>,
     <<OpcodeByte("MovRegImm"), Reg(Word, 0), 1, 2>>,
     <<OpcodeByte("MovRegImm"), Reg(DWord, 0), 1, 2, 3, 4>>,
     <<OpcodeByte("MovRegImm"), Reg(QWord, 0), 1, 2, 3, 4, 5, 6, 7, 8>>,
     <<OpcodeByte("PushImm"), Word, 1, 2>>,
     <<OpcodeByte("JmpImm"), 200, 0, 0, 0, 0, 0, 0, 0>>,
     <<OpcodeByte("Ldr"), Reg(QWord, 0), ADDRESSING_VARIANT_1, Reg(QWord, 1),
       0, 0, 0, 0, 0, 0, 0, 0>>,
     <<OpcodeByte("Str"), Reg(Byte, 0), ADDRESSING_VARIANT_2, 0, 0, 0, 0, 0, 0, 0, 0,
       0, 0, 0, 0, 0, 0, 0, 0>>}

\* An entry point of 0 and the first n bytes of an instruction
ReadImages ==
    UNION {{USize(0) \o SubSeq(e, 1, n) : n \in 1..Len(e)} : e \in ReadEncodings}

InitRead ==
    /\ build \in Builds
    /\ program = <<>>
    /\ compiler = External
    /\ image \in ReadImages
    /\ mem_size \in {Len(image) - 8, Len(image) - 7}
    /\ vm = NoVM
    /\ last = NoLast
    /\ preprocessor = NoPreprocessor

NextRead == Load \/ Step

SpecRead == InitRead /\ [][NextRead]_vars

\* The reads that the arm of an opcode makes after the opcode byte, the
\* address written out once its variant byte has been read
ReadsOf(d) ==
    LET pat == Operands(d.opcode)
    IN  IF Len(pat) = 2 /\ pat[2] = "addr"
        THEN <<pat[1], "variant">>
                \o (IF Len(d.f) < 2 THEN <<>>
                    ELSE IF d.f[2].v = ADDRESSING_VARIANT_1 THEN <<"reg", "qword">>
                    ELSE <<"qword", "qword">>)
        ELSE pat

\* The number of bytes that read j of the instruction asks for
WidthOf(d, j) ==
    LET k == ReadsOf(d)[j]
    IN  CASE k \in {"reg", "size", "variant"} -> 1
          [] k = "qword" -> 8
          [] k = "simm" -> size_in_bytes(d.f[1].v)
          [] OTHER -> size_in_bytes(DataSizeOf(d.f[1].v))

\* IP before read j of the instruction that began at a
Before(d, a, j) == IF j = 1 THEN a + 1 ELSE d.f[j - 1].ip

ReadsChecked(d, pre, post) ==
    LET size == Len(pre.mem)
        at == ip(pre.regs)
        a == Small(at)
        n == Len(d.f)
        oob == d.err = "InstructionPointerOutOfBounds"
    IN  IF GeN(at, size)
        THEN oob /\ n = 0 /\ ip(post.regs) = at
        ELSE /\ d.opcode # "" =>
                /\ \A j \in 1..n :
                      LET w == WidthOf(d, j)
                          from == Before(d, a, j)
                      IN  /\ w \in {1, 2, 4, 8}
                          /\ from + w <= size
                          /\ d.f[j].ip = from + w
                          /\ IF d.f[j].k \in {"imm", "qword"}
                             THEN d.f[j].b = SubSeq(pre.mem, from + 1, from + w)
                             ELSE d.f[j].v = pre.mem[from + 1]
                /\ d.err = "Ok" => n = Len(ReadsOf(d))
                /\ oob =>
                      /\ n < Len(ReadsOf(d))
                      /\ Before(d, a, n + 1) + WidthOf(d, n + 1) > size
                      /\ ip(post.regs) = USize(Before(d, a, n + 1))
                /\ ~oob /\ n < Len(ReadsOf(d)) /\ ReadsOf(d)[n + 1] # "bimm" =>
                      /\ Before(d, a, n + 1) + 1 <= size
                      /\ d.ip = USize(Before(d, a, n + 1) + 1)
             /\ d.opcode = "" => ~oob /\ d.ip = USize(a + 1)

\* C35: every read of k bytes of the instruction stream (k in {1, 2, 4, 8})
\* succeeds and advances IP by exactly k iff IP + k <= memory.len();
\* otherwise the step fails with InstructionPointerOutOfBounds and IP stays
\* where the failed read began.  A step begun with IP >= memory.len() fails
\* with that error.
C35_InstructionReads ==
    last.n >= 1 /\ last.d.err # "None" => ReadsChecked(last.d, last.pre, vm)

\* The immediate of `mov q0, imm` ends one byte after the memory
C35_Witness ==
    /\ last.n = 1
    /\ last.d.opcode = "MovRegImm"
    /\ Len(last.d.f) = 1
    /\ Len(last.pre.mem) = 9
    /\ vm.status = "InstructionPointerOutOfBounds"
    /\ ip(vm.regs) = USize(2)

(***************************************************************************)
(* SpecOpen: bytecode files that call open with Q0 at a path, in a memory  *)
(* that ends with the file or one byte later                               *)
(***************************************************************************)

\* What follows the code: the bytes of the path, with or without a zero byte
OpenTails == {<<>>, <<47>>, <<47, 0>>, <<47, 0, 47>>, <<47, 97, 47, 98>>}

\* Q0 of the call: inside the code, at the path, behind the memory
OpenAddrs == {USize(a) : a \in {0, 21, 22, 23, 24, 25, 26, 200}}
                 \cup {<<255, 255, 255, 255, 255, 255, 255, 255>>}

\* mov q15, 0; mov q0, addr; syscall; hlt; the tail, behind an entry point of 0
OpenImages ==
    {USize(0) \o <<OpcodeByte("MovRegImm"), Reg(QWord, 15)>> \o USize(0)
              \o <<OpcodeByte("MovRegImm"), Reg(QWord, 0)>> \o a
              \o <<OpcodeByte("Syscall"), OpcodeByte("Hlt")>> \o tail :
        a \in OpenAddrs, tail \in OpenTails}

InitOpen ==
    /\ build \in Builds
    /\ program = <<>>
    /\ compiler = External
    /\ image \in OpenImages
    /\ mem_size \in {Len(image) - 8, Len(image) - 7}
    /\ vm = NoVM
    /\ last = NoLast
    /\ preprocessor = NoPreprocessor

NextOpen == Load \/ Step

SpecOpen == InitOpen /\ [][NextOpen]_vars

\* The last step() call executed the open syscall
OpenStep ==
    /\ last.n >= 1
    /\ last.d.err = "Ok"
    /\ last.d.opcode = "Syscall"
    /\ get(last.pre.regs, Reg(QWord, 15)).bytes = USize(0)

\* C36: open either fails with the bounds error, no call reaching the host,
\* or hands the host a path that ends with a zero byte and lies inside
\* memory[Q0 .. memory.len()), whatever the memory holds.
C36_OpenPathInside ==
    OpenStep =>
        \/ vm.status = "InstructionPointerOutOfBounds" /\ last.io = NoIO
        \/ /\ last.io.call = "open"
           /\ last.io.addr = Small(get(last.pre.regs, Reg(QWord, 0)).bytes)
           /\ last.io.count >= 1
           /\ last.io.addr + last.io.count <= Len(last.pre.mem)
           /\ last.pre.mem[last.io.addr + last.io.count] = 0

(***************************************************************************)
(* SpecMem: STR and then LDR at addresses around the end of the memory     *)
(***************************************************************************)

\* base + offset of the memory operand: inside the memory, at its last
\* bytes, behind it, and sums that overflow u64
MemBases ==
    {60, 2 * GuestMem - 9, 2 * GuestMem - 8, 2 * GuestMem - 7, 2 * GuestMem - 2,
     2 * GuestMem - 1, 2 * GuestMem, -1, -8}
MemOffsets == {0, 1, 8}

\* The memory operand [q1 + off] with q1 = base, or [base + off]
MemOperands(base, off) ==
    {AddrE(RegE(Reg(QWord, 1)), IntE(off)), AddrE(IntE(base), IntE(off))}

\* mov q1, base; mov r0, value; str r0, [addr]; ldr r2, [addr]; hlt
MemPrograms ==
    {<<MovLit(Reg(QWord, 1), base), MovLit(Reg(view, 0), 67305985),
       Stmt2("Str", RegE(Reg(view, 0)), a), Stmt2("Ldr", RegE(Reg(view, 2)), a),
       Stmt0("Hlt")>> :
        base \in MemBases, view \in IntViews,
        a \in UNION {MemOperands(b, off) : b \in MemBases, off \in MemOffsets}}

InitMem ==
    /\ build \in Builds
    /\ program \in MemPrograms
    /\ compiler = NotCompiled
    /\ image = <<>>
    /\ mem_size = 2 * GuestMem
    /\ vm = NoVM
    /\ last = NoLast
    /\ preprocessor = NoPreprocessor

NextMem == Compile \/ Load \/ Step

SpecMem == InitMem /\ [][NextMem]_vars

\* The memory operand of the LDR or STR d executed from the VM pre: base +
\* offset as numbers of any size, and whether the w bytes from there lie
\* inside the memory
Operand(d, pre) ==
    LET base == IF d.f[2].v = ADDRESSING_VARIANT_1 THEN get(pre.regs, d.f[3].v).bytes
                ELSE d.f[3].b
        w == size_in_bytes(DataSizeOf(d.f[1].v))
        sum == Add64(base, d.f[4].b)
        end == Add64(sum.sum, USize(w))
    IN  [w |-> w, addr |-> sum.sum,
         inside |-> ~sum.overflow /\ ~end.overflow /\ ~GtN(end.sum, Len(pre.mem))]

StrChecked(d, pre, post) ==
    LET o == Operand(d, pre)
    IN  /\ post.regs = set_ip(pre.regs, d.ip)
        /\ IF o.inside
           THEN /\ post.status = "Ok"
                /\ post.mem = Overwrite(pre.mem, Small(o.addr),
                                        Resize(get(pre.regs, d.f[1].v).bytes, o.w))
           ELSE /\ post.status = "InstructionPointerOutOfBounds"
                /\ post.mem = pre.mem

LdrChecked(d, pre, post) ==
    LET o == Operand(d, pre)
    IN  /\ post.mem = pre.mem
        /\ IF o.inside
           THEN /\ post.status = "Ok"
                /\ get(post.regs, d.f[1].v).bytes
                      = SubSeq(pre.mem, Small(o.addr) + 1, Small(o.addr) + o.w)
           ELSE /\ post.status = "InstructionPointerOutOfBounds"
                /\ get(post.regs, d.f[1].v) = get(pre.regs, d.f[1].v)

\* An LDR that follows an STR of the same width to the same address
LdrAfterStr ==
    /\ Executed({"Ldr"})
    /\ last.pd.err = "Ok" /\ last.pd.opcode = "Str"
    /\ Operand(last.pd, last.pp) = Operand(last.d, last.pre)
    /\ Operand(last.d, last.pre).inside

\* C37: STR reg, [addr] writes the size(reg) bytes of reg, little-endian, at
\* base + offset and changes no other byte and no register but IP; LDR reg,
\* [addr] reads size(reg) bytes there and changes no memory; an LDR after an
\* STR of the same width at the same address yields the stored value; when
\* base + offset + size(reg) > memory.len() the access fails with the bounds
\* error and memory and the register are unchanged.
C37_LdrStr ==
    /\ Executed({"Str"}) => StrChecked(last.d, last.pre, vm)
    /\ Executed({"Ldr"}) => LdrChecked(last.d, last.pre, vm)
    /\ LdrAfterStr =>
          get(vm.regs, last.d.f[1].v).bytes = get(last.pp.regs, last.pd.f[1].v).bytes

(***************************************************************************)
(* C40: the flags                                                          *)
(***************************************************************************)

\* The jump of the last step was taken: IP is its target
JumpTaken == ip(vm.regs) = Target(last.pre, last.d)

\* The step before the last one was a CMP of two equal values of one width
ComparedEqual ==
    /\ last.n >= 2
    /\ last.pd.err = "Ok"
    /\ last.pd.opcode \in {"CmpRegReg", "CmpRegImm"}
    /\ CmpLeft(last.pp, last.pd).size = CmpRight(last.pp, last.pd).size
    /\ SameValue(CmpLeft(last.pp, last.pd), CmpRight(last.pp, last.pd))

\* C40: in every state of a VM that was loaded, eq and lt are not both set;
\* JGT and JGE are taken in the same states (those with lt clear); after a
\* CMP of two equal values of the same width JGT, JGE, JLE and JEQ are taken
\* and JLT and JNE are not.
C40_FlagsExclusive ==
    /\ Running => ~(vm.flags.eq /\ vm.flags.lt)
    /\ Executed({"JgtImm", "JgtReg", "JgeImm", "JgeReg"}) =>
          (JumpTaken <=> ~last.pre.flags.lt)
    /\ Executed(Jumps \ {"JmpImm", "JmpReg"}) /\ ComparedEqual =>
          (JumpTaken <=> last.d.opcode \notin {"JltImm", "JltReg", "JneImm", "JneReg"})

\* JLE taken after cmp q0, 0 with q0 = 0
C40_Witness ==
    /\ Executed({"JleImm"})
    /\ ComparedEqual
    /\ last.pre.flags.eq /\ ~last.pre.flags.lt
    /\ ip(vm.regs) = USize(200)

(***************************************************************************)
(* SpecDefine: one unit of #define, conditionals, uses of the names and    *)
(* #error                                                                  *)
(***************************************************************************)

MaxDefine == 3
MaxUses == 2

Defines ==
    {DefineS("A", IntE(I64(1))), DefineS("A", IdE("B")), DefineS("B", IntE(I64(42))),
     DefineS("B", IdE("A")), DefineS("A", IdE("A"))}

\* mov q0, A
UseA == Stmt2("Mov", RegE(Reg(QWord, 0)), IdE("A"))
\* ldr q0, [B + (A + 1)]
UseAddr ==
    Stmt2("Ldr", RegE(Reg(QWord, 0)),
          AddrE(IdE("B"), BinE(IdE("A"), "Add", IntE(I64(1)))))
\* mov ff0, 3.0 & 3.0
UseFloat == Stmt2("Mov", RegE(Reg(Float, 0)), BinE(FloatE(3), "BitAnd", FloatE(3)))

DefStatements == Defines \cup {IfDefS("A"), IfNDefS("A"), EndIfS, UseA, UseAddr}

\* A conditional block around one statement, then uses
GuardPrograms ==
    {<<open, d, EndIfS>> \o tail :
        open \in {IfDefS("A"), IfNDefS("A"), IfDefS("B")},
        d \in Defines \cup {ErrorS(<<120>>)},
        tail \in SeqsOf({UseA, UseAddr, ErrorS(<<121>>)}, MaxUses)}

\* #error "x" after and before other statements
ErrorPrograms ==
    {head \o <<ErrorS(<<120>>)>> \o tail :
        head \in {<<>>, <<IfDefS("A")>>, <<IfNDefS("A")>>,
                  <<DefineS("A", IntE(I64(1))), IfDefS("A")>>, <<IfDefS("A"), ElseS>>,
                  <<UseA>>, <<UseFloat>>, <<DefineS("A", IdE("A")), UseA>>,
                  <<ErrorS(<<121>>)>>, <<IfDefS("A"), ErrorS(<<121>>), EndIfS>>,
                  <<Stmt1("Error", IntE(I64(1)))>>},
        tail \in {<<>>, <<EndIfS>>, <<ErrorS(<<121>>)>>, <<EndIfS, ErrorS(<<121>>)>>}}

InitDefine ==
    /\ build \in Builds
    /\ program \in SeqsOf(DefStatements, MaxDefine) \cup GuardPrograms \cup ErrorPrograms
    /\ compiler = NotCompiled
    /\ image = <<>>
    /\ mem_size = 0
    /\ vm = NoVM
    /\ last = NoLast
    /\ preprocessor = PreprocessorNew(program, RootPath, <<>>)

NextDefine == ProcessStatement \/ ProcessConditional \/ ProcessFinish

SpecDefine == InitDefine /\ [][NextDefine]_vars

(***************************************************************************)
(* C38: the definitions of a unit are collected first                      *)
(***************************************************************************)

\* The unit without its #define lines
Stripped == SelectSeq(program, LAMBDA s : s.op # "Define")

\* The last #define of each name of the unit, wherever it stands, and the
\* predefined names
LastDefinitions ==
    LET at(n) == {m \in 1..Len(program) :
                     program[m].op = "Define" /\ program[m].a.name = n}
    IN  [n \in DefinedNames \ DOMAIN DefaultDefinitions |->
            program[CHOOSE m \in at(n) : \A h \in at(n) : h <= m].b]
        @@ DefaultDefinitions

\* The admitted statements of the unit, each with the names replaced as the
\* last definitions say
Expected ==
    LET K == Kept(Stripped, 1, Len(Stripped))
    IN  [j \in 1..Len(K) |-> Substituted(build, LastDefinitions, K[j])]

\* C38: within one unit every #define takes effect before any conditional is
\* evaluated and before any substitution: #ifdef n holds and the uses of n
\* are replaced also when `#define n` follows them or stands in a block that
\* is not admitted, and a name defined several times has the value of its
\* last definition everywhere.
C38_DefinitionsCollectedFirst ==
    /\ preprocessor.status \notin {"None", "Running"} =>
          preprocessor.stack[1].definitions = LastDefinitions
    /\ preprocessor.status = "Ok" => preprocessor.out = Expected

\* A is tested before its #define, which stands in the block that the test
\* then does not admit; the use behind the block is replaced all the same
C38_Witness ==
    /\ program = <<IfNDefS("A"), DefineS("A", IntE(I64(1))), EndIfS, UseA>>
    /\ preprocessor.status = "Ok"
    /\ preprocessor.out = <<Stmt2("Mov", RegE(Reg(QWord, 0)), IntE(I64(1)))>>

(***************************************************************************)
(* C33, C39, C32: substitution and #error                                  *)
(***************************************************************************)

\* The names of the identifiers in an expression, inside addresses and
\* binary operations too
RECURSIVE NamesIn(_)
NamesIn(e) ==
    CASE e.k = "Identifier" -> {e.name}
      [] e.k = "Address" -> NamesIn(e.base) \cup NamesIn(e.off)
      [] e.k = "BinaryOp" -> NamesIn(e.lhs) \cup NamesIn(e.rhs)
      [] OTHER -> {}

\* C33: a stream that process() returns holds no Define, Include, IfDef,
\* IfNDef, Else, EndIf or Error statement, and no operand of it, nor any
\* part of an Address or BinaryOp operand, is an identifier that the final
\* table of definitions defines: definitions are resolved transitively.
C33_OutputResolved ==
    preprocessor.status = "Ok" =>
        \A j \in 1..Len(preprocessor.out) :
            LET s == preprocessor.out[j]
            IN  /\ s.op \notin {"Define", "Include", "IfDef", "IfNDef", "Else", "EndIf",
                                "Error"}
                /\ \A i \in 1..Len(OperandsOf(s)) :
                      NamesIn(OperandsOf(s)[i])
                          \cap DOMAIN preprocessor.stack[1].definitions = {}

\* A is defined as B and B as 42: A and A + 1 become 42 and 43
C33_Witness ==
    /\ program = <<DefineS("A", IdE("B")), UseAddr, DefineS("B", IntE(I64(42)))>>
    /\ preprocessor.status = "Ok"
    /\ preprocessor.out =
          <<Stmt2("Ldr", RegE(Reg(QWord, 0)), AddrE(IntE(I64(42)), IntE(I64(43))))>>

\* C39: the substitution of identifiers ends for every table of
\* definitions, a name defined as itself and names defined by each other
\* included: process() returns a stream or an error.
C39_SubstitutionTerminates == preprocessor.status # "StackOverflow"

\* The errors of the first loop and of process_conditionals
EarlyErrors ==
    {"InvalidDefineKey", "InvalidIncludePath", "IncludeFileNotFound", "CircularInclude",
     "InvalidConditionalExpr", "UnmatchedElse", "UnmatchedEndif", "UnmatchedIfdef",
     "UnmatchedIfndef"}

\* The #error statements of the unit that every enclosing conditional admits
AdmittedErrors ==
    SelectSeq(Kept(Stripped, 1, Len(Stripped)), LAMBDA s : s.op = "Error")

\* C32: when the first loop and the conditionals end without error,
\* process() fails with the user error of the first admitted #error "msg" if
\* there is one, and an #error in a block that is not admitted never makes
\* it fail.
C32_UserError ==
    preprocessor.status \notin {"None", "Running"} \cup EarlyErrors =>
        IF AdmittedErrors # <<>> /\ AdmittedErrors[1].a.k = "StringLiteral"
        THEN /\ preprocessor.status = "Error"
             /\ preprocessor.message = AdmittedErrors[1].a.bytes
        ELSE AdmittedErrors = <<>> => preprocessor.status # "Error"

(***************************************************************************)
(* SpecShare: a unit and two files that define and use names               *)
(***************************************************************************)

MaxShare == 2

UseB == Stmt2("Mov", RegE(Reg(QWord, 0)), IdE("B"))

\* The root unit: A defined or used or neither, the #include of a (alone,
\* in a block, or followed by the #include of b), then a use or a #define
ShareRoots ==
    {head \o mid \o tail :
        head \in {<<>>, <<DefineS("A", IntE(I64(1)))>>, <<UseA>>},
        mid \in {<<IncludeS(<<97>>)>>,
                 <<IfDefS("B"), IncludeS(<<97>>), EndIfS>>,
                 <<IfNDefS("B"), IncludeS(<<97>>), EndIfS>>,
                 <<IncludeS(<<97>>), IncludeS(<<98>>)>>},
        tail \in {<<>>, <<UseA>>, <<UseB>>, <<DefineS("A", IntE(I64(7)))>>}}

\* The file a: up to MaxShare lines, or one line in a block
ShareTexts ==
    SeqsOf({IfDefS("A"), EndIfS, DefineS("B", IdE("A")), UseA, IncludeS(<<98>>)}, MaxShare)
        \cup {<<open, s, EndIfS>> :
                 open \in {IfDefS("A"), IfNDefS("A")},
                 s \in {DefineS("B", IdE("A")), UseA, UseB, IncludeS(<<98>>)}}

\* The file b
ShareLeaves ==
    {<<DefineS("B", IntE(I64(42)))>>, <<DefineS("A", IntE(I64(7))), UseB>>, <<UseA>>}

InitShare ==
    /\ build = "release"
    /\ \E o \in ShareRoots, a \in ShareTexts, b \in ShareLeaves :
          /\ program = o
          /\ preprocessor =
                PreprocessorNew(o, RootPath,
                                (RootPath :> o) @@ (<<97>> :> a) @@ (<<98>> :> b))
    /\ compiler = NotCompiled
    /\ image = <<>>
    /\ mem_size = 0
    /\ vm = NoVM
    /\ last = NoLast

NextShare ==
    ProcessStatement \/ ProcessInclude \/ ProcessConditional \/ ProcessReturn \/ ProcessFinish

SpecShare == InitShare /\ [][NextShare]_vars

\* The names that a file's text defines
DefinedIn(text) ==
    {text[n].a.name :
        n \in {m \in 1..Len(text) : text[m].op = "Define" /\ text[m].a.k = "Identifier"}}

\* A sub-preprocessor has been made: it starts with the table of the includer
IncludeInherits ==
    (preprocessor'.status = "Running" /\ Len(preprocessor'.stack) = Len(preprocessor.stack) + 1)
        => preprocessor'.stack[Len(preprocessor'.stack)].definitions = Top.definitions

\* A sub-preprocessor has returned: the includer has every definition of it,
\* and the returned statements stand behind the statements collected before
\* the #include
IncludeReturns ==
    (preprocessor'.status = "Running" /\ Len(preprocessor'.stack) = Len(preprocessor.stack) - 1)
        => LET self == preprocessor.stack[Len(preprocessor.stack) - 1]
               merged == preprocessor'.stack[Len(preprocessor'.stack)]
           IN  /\ \A n \in DOMAIN Top.definitions :
                     /\ n \in DOMAIN merged.definitions
                     /\ merged.definitions[n] = Top.definitions[n]
               /\ \A n \in DOMAIN self.definitions : n \in DOMAIN merged.definitions
               /\ merged.processed = self.processed \o Finished(build, Top).statements
               /\ merged.i = self.i + 1

\* While an included file is processed it has every name of its includer;
\* after success the root has every name that any included file defines
DefinitionsShared ==
    /\ \A d \in 2..Len(preprocessor.stack) :
          DOMAIN preprocessor.stack[d - 1].definitions
              \subseteq DOMAIN preprocessor.stack[d].definitions
    /\ preprocessor.status = "Ok" =>
          \A p \in IncludeClosure({RootPath}) :
              DefinedIn(preprocessor.files[p]) \subseteq DOMAIN preprocessor.stack[1].definitions

\* C31 (as stated): definitions flow both ways across an #include, and the
\* statements that the included file's process() returned stand in the
\* output at the position of the #include, in order: a unit of #include and
\* #define lines only has as output the returned statements as spliced.
C31_SplicedAsStated ==
    (preprocessor.status = "Ok"
        /\ \A n \in 1..Len(program) : program[n].op \in {"Include", "Define"})
        => preprocessor.out = preprocessor.stack[1].processed

\* C31 (amended): the included file starts with every definition the
\* includer has when the #include is expanded, the includer has every
\* definition of the included file (and of the files that one includes)
\* afterwards, and the statements that the included file's process()
\* returned are spliced into the includer's stream at the position of the
\* #include, in order; they then pass through the includer's conditionals
\* and substitution like its own statements.
C31_DefinitionsShared ==
    /\ []DefinitionsShared
    /\ [][IncludeInherits /\ IncludeReturns]_vars
    /\ [](preprocessor.status = "Ok" =>
            preprocessor.out = Finished(build, preprocessor.stack[1]).statements)

\* The root defines A and includes a; a defines B as A and uses A; the root
\* then uses B
C31_Witness ==
    /\ program = <<DefineS("A", IntE(I64(1))), IncludeS(<<97>>), UseB>>
    /\ preprocessor.files[<<97>>] = <<DefineS("B", IdE("A")), UseA>>
    /\ preprocessor.status = "Ok"
    /\ preprocessor.stack[1].definitions["B"] = IdE("A")
    /\ preprocessor.out = <<Stmt2("Mov", RegE(Reg(QWord, 0)), IntE(I64(1))),
                            Stmt2("Mov", RegE(Reg(QWord, 0)), IntE(I64(1)))>>

====
